---- MODULE Spec2Model ----
(***************************************************************************)
(* ai-rss-filter: the tiered cache (src/src/cache_manager.py) and the      *)
(* ingestion pipeline that uses it (rss_processor.py, filter_manager.py,   *)
(* llm_integrator.py, data_manager.py).                                    *)
(*                                                                         *)
(* Conventions.  An Optional[X] of the code is a set with at most one      *)
(* element: None is {} and a value x is {x}.  A dict is a function whose   *)
(* DOMAIN is the set of its keys.  Time is in whole seconds; datetime.now()*)
(* is the variable now, and one call of a handler reads one instant.       *)
(* hashlib.md5 is taken to be injective, so a hashed key is modelled by    *)
(* the string that is hashed.                                              *)
(***************************************************************************)
EXTENDS Integers, Sequences, FiniteSets, TLC

VARIABLES
    now,      \* datetime.now(), seconds
    ticks,    \* number of clock advances so far (bounded by MaxTicks)
    conf,     \* CacheManager.memory_enabled / file_enabled / db_enabled
    cache,    \* the three stores: MemoryCache.cache, the cache directory, table cache
    last,     \* the latest cache operation issued and what it did (observation only)
    live_at,  \* per source url, when feedparser last went to the network (observation only)
    fetched,  \* the latest fetch_rss call and what it did (observation only)
    config,   \* config.yaml: the group's filter / summary switches, the provider's API key
    annotated, \* the latest batch_process_entries call and what it did (observation only)
    entries_table, \* table entries of rss_data.db, rows of the group by entry_id
    metadata, \* table metadata: the group's last_update (None: no row)
    rss_file, \* the items of the group's generated feed file (None: no file)
    run,      \* the process_group call in progress
    runs,     \* number of process_group calls so far (bounded by MaxRuns)
    outcome,  \* the latest process_group call that returned (observation only)
    before,   \* the stores and the storage behaviour at the latest cache call (observation only)
    shadow,   \* the stores of a second CacheManager, configured without the memory tier
    deduped,  \* a deduplicate_entries call: its arguments and what it returned
    threads,  \* per request thread of the web server, its process_group call in progress
    asked,    \* per item, the filter requests sent to the provider so far (observation only)
    lock,     \* SchedulerManager.lock: the thread holding it (None: free)
    jobs,     \* SchedulerManager.jobs: job id -> group name
    scheduler, \* the timers held by the BackgroundScheduler
    callers,  \* per thread, its add_job / remove_job / update_job call in progress
    calls     \* number of scheduler calls made so far (bounded by MaxCalls)

cvars == <<conf, cache, last>>
fvars == <<live_at, fetched>>
avars == <<annotated>>
rvars == <<entries_table, metadata, rss_file, run, runs, outcome>>
tvars == <<threads, asked>>
svars == <<lock, jobs, scheduler, callers, calls>>
xvars == <<before, shadow, deduped, threads, asked, lock, jobs, scheduler, callers, calls>>
vars == <<now, ticks, conf, cache, last, live_at, fetched, config, annotated,
          entries_table, metadata, rss_file, run, runs, outcome,
          before, shadow, deduped, threads, asked,
          lock, jobs, scheduler, callers, calls>>

(***************************************************************************)
(* Bounds and program constants                                            *)
(***************************************************************************)
MaxTicks == 1
MaxRuns == 2
MaxPairWaits == 2

memory_ttl == 3600
file_ttl == 86400
db_ttl == 604800

\* the clock advances by one of these amounts
Durations == {2, file_ttl, db_ttl}

Keys == {"k1"}
Values == {"v1", "v2"}

None == {}
Some(x) == {x}
The(opt) == CHOOSE x \in opt : TRUE

Tiers == {"memory", "file", "db"}
CacheTypes == {None, Some("memory"), Some("file"), Some("db")}

\* What the storage does during one call.  fread: stat/open/pickle.load of the
\* cache file raises.  funlink: unlink of the cache file raises (the directory
\* refuses the removal).  fwrite: "ok", open(path, 'wb') raises (file
\* untouched), or pickle.dump raises after open truncated the file.  db: "ok",
\* every sqlite call of this invocation raises ("fails"), or only the DELETE
\* issued for an expired row raises ("delete_fails").
FileWrites == {"ok", "open_fails", "dump_fails"}
DbModes == {"ok", "fails", "delete_fails"}
Envs == [fread : BOOLEAN, funlink : BOOLEAN, fwrite : FileWrites, db : DbModes]
Healthy == [fread |-> FALSE, funlink |-> FALSE, fwrite |-> "ok", db |-> "ok"]

EmptyStore == [k \in {} |-> {}]
Remove(store, key) == [k \in DOMAIN store \ {key} |-> store[k]]
Put(store, key, entry) == (key :> entry) @@ store

(***************************************************************************)
(* MemoryCache                                                             *)
(***************************************************************************)
\* MemoryCache.get with the expiry comparison reversed
MemoryCache_get_reversed(store, key, t) ==
    IF key \notin DOMAIN store
    THEN [store |-> store, value |-> None]
    ELSE IF t < store[key].expires_at
         THEN [store |-> Remove(store, key), value |-> None]
         ELSE [store |-> store, value |-> Some(store[key].value)]

\* MemoryCache.get emptying the whole dict when it meets an expired entry
MemoryCache_get_clears(store, key, t) ==
    IF key \notin DOMAIN store
    THEN [store |-> store, value |-> None]
    ELSE IF t > store[key].expires_at
         THEN [store |-> EmptyStore, value |-> None]
         ELSE [store |-> store, value |-> Some(store[key].value)]

MemoryCache_get(store, key, t) ==
    IF key \notin DOMAIN store
    THEN [store |-> store, value |-> None]
    ELSE IF t > store[key].expires_at
         THEN [store |-> Remove(store, key), value |-> None]
         ELSE [store |-> store, value |-> Some(store[key].value)]

\* MemoryCache.set without the tier's default ttl when no ttl is passed
MemoryCache_set_nodefault(store, self_ttl, key, value, ttl, t) ==
    LET use == IF ttl = None THEN 0 ELSE The(ttl)
    IN  [store |-> Put(store, key, [value |-> value, expires_at |-> t + use]),
         ok |-> TRUE]

MemoryCache_set(store, self_ttl, key, value, ttl, t) ==
    LET use == IF ttl = None THEN self_ttl ELSE The(ttl)
    IN  [store |-> Put(store, key, [value |-> value, expires_at |-> t + use]),
         ok |-> TRUE]

(***************************************************************************)
(* FileCache: one file per key; freshness from the file's mtime            *)
(***************************************************************************)
\* FileCache.get returning absent without the unlink
FileCache_get_keeps(store, key, env) ==
    [store |-> store, value |-> None, raised |-> FALSE]

\* cache_path.unlink(missing_ok=True) in FileCache.get.  The unlink of an
\* expired file is inside the try, the handler's unlink is not: when the
\* removal is refused the exception leaves get (raised).
FileCache_get_unlink(store, key, env) ==
    IF env.funlink
    THEN [store |-> store, value |-> None, raised |-> TRUE]
    ELSE [store |-> Remove(store, key), value |-> None, raised |-> FALSE]

FileCache_get(store, self_ttl, key, t, env) ==
    IF key \notin DOMAIN store
    THEN [store |-> store, value |-> None, raised |-> FALSE]
    ELSE IF env.fread
         THEN FileCache_get_unlink(store, key, env)
         ELSE IF t - store[key].mtime > self_ttl
              THEN FileCache_get_unlink(store, key, env)
              ELSE IF store[key].corrupt
                   THEN FileCache_get_unlink(store, key, env)
                   ELSE [store |-> store, value |-> store[key].value, raised |-> FALSE]

FileCache_set(store, self_ttl, key, value, ttl, t, env) ==
    CASE env.fwrite = "ok" ->
            [store |-> Put(store, key, [value |-> Some(value), mtime |-> t, corrupt |-> FALSE]),
             ok |-> TRUE]
      [] env.fwrite = "open_fails" ->
            [store |-> store, ok |-> FALSE]
      [] env.fwrite = "dump_fails" ->
            [store |-> Put(store, key, [value |-> None, mtime |-> t, corrupt |-> TRUE]),
             ok |-> FALSE]

(***************************************************************************)
(* DatabaseCache: table cache(key PRIMARY KEY, value, created_at)          *)
(***************************************************************************)
DatabaseCache_delete(store, key, env) ==
    IF env.db = "ok"
    THEN [store |-> Remove(store, key), ok |-> TRUE]
    ELSE [store |-> store, ok |-> FALSE]

DatabaseCache_get(store, self_ttl, key, t, env) ==
    IF env.db = "fails"
    THEN [store |-> store, value |-> None]
    ELSE IF key \notin DOMAIN store
         THEN [store |-> store, value |-> None]
         ELSE IF t - store[key].created_at > self_ttl
              THEN [store |-> DatabaseCache_delete(store, key, env).store, value |-> None]
              ELSE [store |-> store, value |-> Some(store[key].value)]

DatabaseCache_set(store, self_ttl, key, value, ttl, t, env) ==
    IF env.db = "fails"
    THEN [store |-> store, ok |-> FALSE]
    ELSE [store |-> Put(store, key, [value |-> value, created_at |-> t]), ok |-> TRUE]

(***************************************************************************)
(* CacheManager                                                            *)
(***************************************************************************)
Enabled(cf) ==
    {tier \in Tiers : \/ tier = "memory" /\ cf.memory_enabled
                      \/ tier = "file" /\ cf.file_enabled
                      \/ tier = "db" /\ cf.db_enabled}

\* get() looks in memory, then file, then db: the tiers looked in before
\* tier hit answered ("none": nothing answered)
SearchedBefore(hit) ==
    CASE hit = "memory" -> {}
      [] hit = "file" -> {"memory"}
      [] hit = "db" -> {"memory", "file"}
      [] OTHER -> Tiers

\* a promotion that would refill every other tier, the slower ones too
BackfillTiers_all(hit) == IF hit = "none" THEN {} ELSE Tiers \ {hit}

\* a promotion that also rewrites the tier that answered
BackfillTiers_refresh(hit) ==
    CASE hit = "file" -> {"memory", "file"}
      [] hit = "db" -> {"memory", "file", "db"}
      [] OTHER -> {}

\* The tiers get() refills after tier hit answered: memory after a file hit,
\* memory and file after a db hit.
BackfillTiers(hit) ==
    CASE hit = "file" -> {"memory"}
      [] hit = "db" -> {"memory", "file"}
      [] OTHER -> {}

\* tier.get(key) when the tier is enabled, a miss when it is not
TierRead(tier, c, cf, key, t, env) ==
    IF tier \notin Enabled(cf)
    THEN [store |-> c[tier], value |-> None]
    ELSE CASE tier = "memory" -> MemoryCache_get(c.memory, key, t)
           [] tier = "file" -> FileCache_get(c.file, file_ttl, key, t, env)
           [] tier = "db" -> DatabaseCache_get(c.db, db_ttl, key, t, env)

\* tier.set(key, value, ttl) when the tier is one of those written (on)
TierWrite(tier, on, c, key, value, ttl, t, env) ==
    IF ~on
    THEN [store |-> c[tier], ok |-> FALSE]
    ELSE CASE tier = "memory" -> MemoryCache_set(c.memory, memory_ttl, key, value, ttl, t)
           [] tier = "file" -> FileCache_set(c.file, file_ttl, key, value, ttl, t, env)
           [] tier = "db" -> DatabaseCache_set(c.db, db_ttl, key, value, ttl, t, env)

\* the stores after the writes m, f, d to the tiers in to, the tiers whose set
\* succeeded (wrote) and the tiers whose set failed
Written(to, m, f, d) ==
    [cache |-> [memory |-> m.store, file |-> f.store, db |-> d.store],
     wrote |-> {tier \in to : [memory |-> m.ok, file |-> f.ok, db |-> d.ok][tier]},
     failed |-> {tier \in to : ~[memory |-> m.ok, file |-> f.ok, db |-> d.ok][tier]}]

\* a set that gives up on the db tier once the file tier's write failed
WriteTiers_stops(to, c, key, value, ttl, t, env) ==
    Written(to,
            TierWrite("memory", "memory" \in to, c, key, value, ttl, t, env),
            TierWrite("file", "file" \in to, c, key, value, ttl, t, env),
            TierWrite("db", "db" \in to /\ ("file" \notin to \/ env.fwrite = "ok"),
                      c, key, value, ttl, t, env))

WriteTiers(to, c, key, value, ttl, t, env) ==
    Written(to,
            TierWrite("memory", "memory" \in to, c, key, value, ttl, t, env),
            TierWrite("file", "file" \in to, c, key, value, ttl, t, env),
            TierWrite("db", "db" \in to, c, key, value, ttl, t, env))

\* what get returns once tier hit answered v ("none": nothing did) and the
\* promotion writes w are done
Answered(hit, v, cf, w) ==
    [cache |-> w.cache, value |-> v,
     reads |-> (SearchedBefore(hit) \cup {hit}) \cap Enabled(cf),
     hit |-> hit, wrote |-> w.wrote, failed |-> w.failed, raised |-> FALSE]

\* tier.get(key) raised: only FileCache.get lets an exception out
Raises(tier, cf, r) == tier = "file" /\ tier \in Enabled(cf) /\ r.raised

\* get(key) left by the exception of the file tier's get
Raised(looked, cf) ==
    [cache |-> looked, value |-> None,
     reads |-> {"memory", "file"} \cap Enabled(cf),
     hit |-> "none", wrote |-> {}, failed |-> {}, raised |-> TRUE]

\* the value was found in tier hit after the faster tiers missed
Found(hit, v, looked, cf, key, t, env) ==
    Answered(hit, v, cf,
             WriteTiers(BackfillTiers(hit) \cap Enabled(cf), looked, key,
                        IF v = None THEN "" ELSE The(v), None, t, env))

\* a get that asks the db tier before the file tier
Search_db_first(c, cf, key, t, env, m, f, d) ==
    IF m.value # None
    THEN Found("memory", m.value, [c EXCEPT !.memory = m.store], cf, key, t, env)
    ELSE IF d.value # None
    THEN Found("db", d.value, [memory |-> m.store, file |-> c.file, db |-> d.store],
               cf, key, t, env)
    ELSE IF f.value # None
    THEN Found("file", f.value, [memory |-> m.store, file |-> f.store, db |-> d.store],
               cf, key, t, env)
    ELSE Found("none", None, [memory |-> m.store, file |-> f.store, db |-> d.store],
               cf, key, t, env)

\* get(key) over the tiers in order, m, f, d being what each tier's get does
Search(c, cf, key, t, env, m, f, d) ==
    IF m.value # None
    THEN Found("memory", m.value, [c EXCEPT !.memory = m.store], cf, key, t, env)
    ELSE IF Raises("file", cf, f)
    THEN Raised([c EXCEPT !.memory = m.store], cf)
    ELSE IF f.value # None
    THEN Found("file", f.value, [c EXCEPT !.memory = m.store, !.file = f.store],
               cf, key, t, env)
    ELSE IF d.value # None
    THEN Found("db", d.value, [memory |-> m.store, file |-> f.store, db |-> d.store],
               cf, key, t, env)
    ELSE Found("none", None, [memory |-> m.store, file |-> f.store, db |-> d.store],
               cf, key, t, env)

\* get(key, cache_type=tier), r being what the tier's get does
OnlyRead(tier, c, cf, r) ==
    [cache |-> [c EXCEPT ![tier] = r.store], value |-> r.value,
     reads |-> {tier} \cap Enabled(cf),
     hit |-> IF r.value # None THEN tier ELSE "none",
     wrote |-> {}, failed |-> {}, raised |-> Raises(tier, cf, r)]

\* get(key, cache_type): the stores afterwards, the value returned, the tiers
\* whose get was called (reads), the tier that answered (hit, "none" on a
\* miss), the tiers whose set was called and succeeded (wrote) or failed.
CacheManager_get(c, cf, key, cache_type, t, env) ==
    IF cache_type # None
    THEN OnlyRead(The(cache_type), c, cf, TierRead(The(cache_type), c, cf, key, t, env))
    ELSE Search(c, cf, key, t, env,
                TierRead("memory", c, cf, key, t, env),
                TierRead("file", c, cf, key, t, env),
                TierRead("db", c, cf, key, t, env))

\* addressing that falls back to the enabled tiers when the named tier is off
Addressed_fallback(cache_type, cf) ==
    IF cache_type = None \/ cache_type \cap Enabled(cf) = {}
    THEN Enabled(cf)
    ELSE cache_type

\* the tiers an operation with this cache_type addresses
Addressed(cache_type, cf) ==
    (IF cache_type = None THEN Tiers ELSE cache_type) \cap Enabled(cf)

\* what set returns once the writes w are done: on every tier the conjunction
\* of the enabled tiers' results, on one tier that tier's result
SetDone(cache_type, w) ==
    [cache |-> w.cache,
     ok |-> IF cache_type = None THEN w.failed = {} ELSE w.wrote # {},
     wrote |-> w.wrote, failed |-> w.failed]

\* set(key, value, ttl, cache_type): the stores afterwards, the bool returned,
\* the tiers whose set succeeded (wrote) and the tiers whose set failed.
CacheManager_set(c, cf, key, value, ttl, cache_type, t, env) ==
    SetDone(cache_type,
            WriteTiers(Addressed(cache_type, cf), c, key, value, ttl, t, env))

(***************************************************************************)
(* The cache driven directly: any caller issuing get and set over time     *)
(***************************************************************************)
\* ttl arguments a caller passes to set: none, or one second
Ttls == {None, Some(1)}

\* Storage behaviours tried: healthy, or one kind of fault during the call
Faulty(env) ==
    {x \in {"r", "w", "d"} : \/ x = "r" /\ env.fread
                             \/ x = "w" /\ env.fwrite # "ok"
                             \/ x = "d" /\ env.db # "ok"}
GetEnvs ==
    {env \in Envs : /\ Cardinality(Faulty(env)) <= 1
                    /\ env.funlink => env.fwrite = "ok" /\ env.db = "ok"}
SetEnvs == {env \in GetEnvs : ~env.fread /\ ~env.funlink /\ env.db # "delete_fails"}

GetInputs ==
    [cache_type : {None}, env : GetEnvs] \cup [cache_type : CacheTypes, env : {Healthy}]
SetInputs ==
    [ttl : {None}, cache_type : {None}, env : SetEnvs]
    \cup [ttl : Ttls, cache_type : {None}, env : {Healthy}]
    \cup [ttl : {None}, cache_type : CacheTypes, env : {Healthy}]

\* what get(key, cache_type=tier) would return at time t, storage healthy
TierGet(c, cf, key, tier, t) == CacheManager_get(c, cf, key, Some(tier), t, Healthy).value

\* tiers in which a get of key at time t would find a value
Holding(c, cf, key, t) == {tier \in Enabled(cf) : TierGet(c, cf, key, tier, t) # None}

NoOp == [op |-> "none"]

\* the tier switches of cache.* in config.yaml
Confs == [memory_enabled : BOOLEAN, file_enabled : BOOLEAN, db_enabled : BOOLEAN]
AllTiers == [memory_enabled |-> TRUE, file_enabled |-> TRUE, db_enabled |-> TRUE]

InitCache(confs) ==
    /\ now = 0
    /\ ticks = 0
    /\ conf \in confs
    /\ cache = [memory |-> EmptyStore, file |-> EmptyStore, db |-> EmptyStore]
    /\ last = NoOp

InitFetch ==
    /\ live_at = [url \in {} |-> 0]
    /\ fetched = NoOp

\* a group with two sources, deduplication, filter and summary switched on, and
\* the provider's API key set
AllOn ==
    [urls |-> <<"u1", "u2">>, dedup_enabled |-> TRUE, dedup_days |-> 3,
     filter_enabled |-> TRUE, summary_enabled |-> TRUE, api_key |-> TRUE]

InitAnnotate ==
    /\ annotated = NoOp

Idle == [pc |-> "idle"]

\* the server handles requests in threads (threaded=True): two at a time here
Threads == {1, 2}

InitRun ==
    /\ before = NoOp
    /\ shadow = [memory |-> EmptyStore, file |-> EmptyStore, db |-> EmptyStore]
    /\ deduped = NoOp
    /\ threads = [w \in Threads |-> Idle]
    /\ asked = [id \in {} |-> 0]
    /\ lock = None
    /\ jobs = EmptyStore
    /\ scheduler = {}
    /\ callers = [t \in Threads |-> Idle]
    /\ calls = 0
    /\ entries_table = [id \in {} |-> {}]
    /\ metadata = None
    /\ rss_file = None
    /\ run = Idle
    /\ runs = 0
    /\ outcome = NoOp

\* time passes between two calls, at most max times
WaitUpTo(durations, max) ==
    /\ ticks < max
    /\ \E d \in durations : now' = now + d
    /\ ticks' = ticks + 1
    /\ UNCHANGED <<cvars, fvars, config, avars, rvars, xvars>>

Wait(durations) == WaitUpTo(durations, MaxTicks)

Tick == Wait(Durations)

\* A run of consecutive get(key) calls that starts with a get answered by the
\* file or db tier while the memory tier is enabled: the time and value of that
\* first get (n = 1), kept by the gets that follow it (n = 2) for as long as
\* memory_ttl has not elapsed since the first one.
Promoted(key, cache_type, r, t) ==
    IF cache_type # None THEN None
    ELSE IF /\ last.op = "get" /\ last.key = key /\ last.promoted # None
            /\ t <= The(last.promoted).at + memory_ttl
         THEN Some([The(last.promoted) EXCEPT !.n = 2])
         ELSE IF r.hit \in {"file", "db"} /\ conf.memory_enabled
              THEN Some([at |-> t, n |-> 1, value |-> The(r.value)])
              ELSE None

\* the tiers whose write failed in the set(key, ...) on every tier that
\* immediately preceded this operation
FailedJustBefore(key) ==
    IF last.op = "set" /\ last.key = key /\ last.cache_type = None
    THEN last.failed
    ELSE {}

Got(key, cache_type, r) ==
    /\ cache' = r.cache
    /\ last' = [op |-> "get", key |-> key, cache_type |-> cache_type,
                time |-> now, value |-> r.value,
                reads |-> r.reads, hit |-> r.hit,
                wrote |-> r.wrote, failed |-> r.failed, raised |-> r.raised,
                promoted |-> Promoted(key, cache_type, r, now),
                after_failed |-> FailedJustBefore(key),
                untouched |-> {tier \in Tiers : r.cache[tier] = cache[tier]}]

Get(key, cache_type, env) ==
    /\ Got(key, cache_type, CacheManager_get(cache, conf, key, cache_type, now, env))
    /\ UNCHANGED <<now, ticks, conf, fvars, config, avars, rvars, xvars>>

WasSet(key, value, ttl, cache_type, r) ==
    /\ cache' = r.cache
    /\ last' = [op |-> "set", key |-> key, cache_type |-> cache_type,
                time |-> now, ttl |-> ttl, value |-> Some(value),
                ok |-> r.ok, failed |-> r.failed,
                held |-> Holding(cache, conf, key, now)]

Set(key, value, ttl, cache_type, env) ==
    /\ WasSet(key, value, ttl, cache_type,
              CacheManager_set(cache, conf, key, value, ttl, cache_type, now, env))
    /\ UNCHANGED <<now, ticks, conf, fvars, config, avars, rvars, xvars>>

Next ==
    \/ Tick
    \/ \E key \in Keys, i \in GetInputs : Get(key, i.cache_type, i.env)
    \/ \E key \in Keys, value \in Values, i \in SetInputs :
           Set(key, value, i.ttl, i.cache_type, i.env)

Init ==
    /\ InitCache(Confs) /\ InitFetch /\ config = AllOn /\ InitAnnotate /\ InitRun

Spec == Init /\ [][Next]_vars

(***************************************************************************)
(* delete and clear, and the cache driven tier by tier under storage       *)
(* faults, with the stores before each call kept for comparison            *)
(***************************************************************************)
MemoryCache_delete(store, key) ==
    IF key \in DOMAIN store
    THEN [store |-> Remove(store, key), ok |-> TRUE]
    ELSE [store |-> store, ok |-> FALSE]

FileCache_delete(store, key, env) ==
    IF key \in DOMAIN store
    THEN IF env.funlink
         THEN [store |-> store, ok |-> FALSE]
         ELSE [store |-> Remove(store, key), ok |-> TRUE]
    ELSE [store |-> store, ok |-> FALSE]

MemoryCache_clear(store) == [store |-> EmptyStore, ok |-> TRUE]

\* the loop over *.cache stops at the first unlink that raises
FileCache_clear(store, env) ==
    IF env.funlink /\ DOMAIN store # {}
    THEN [store |-> store, ok |-> FALSE]
    ELSE [store |-> EmptyStore, ok |-> TRUE]

DatabaseCache_clear(store, env) ==
    IF env.db = "ok"
    THEN [store |-> EmptyStore, ok |-> TRUE]
    ELSE [store |-> store, ok |-> FALSE]

\* tier.delete(key) when the tier is one of those addressed (on)
TierDelete(tier, on, c, key, env) ==
    IF ~on
    THEN [store |-> c[tier], ok |-> FALSE]
    ELSE CASE tier = "memory" -> MemoryCache_delete(c.memory, key)
           [] tier = "file" -> FileCache_delete(c.file, key, env)
           [] tier = "db" -> DatabaseCache_delete(c.db, key, env)

\* tier.clear() when the tier is one of those addressed (on)
TierClear(tier, on, c, env) ==
    IF ~on
    THEN [store |-> c[tier], ok |-> FALSE]
    ELSE CASE tier = "memory" -> MemoryCache_clear(c.memory)
           [] tier = "file" -> FileCache_clear(c.file, env)
           [] tier = "db" -> DatabaseCache_clear(c.db, env)

DeleteTiers(to, c, key, env) ==
    Written(to,
            TierDelete("memory", "memory" \in to, c, key, env),
            TierDelete("file", "file" \in to, c, key, env),
            TierDelete("db", "db" \in to, c, key, env))

\* delete(key, cache_type): the stores afterwards and the bool returned
CacheManager_delete(c, cf, key, cache_type, env) ==
    SetDone(cache_type, DeleteTiers(Addressed(cache_type, cf), c, key, env))

ClearTiers(to, c, env) ==
    Written(to,
            TierClear("memory", "memory" \in to, c, env),
            TierClear("file", "file" \in to, c, env),
            TierClear("db", "db" \in to, c, env))

\* clear(cache_type): the stores afterwards and the bool returned
CacheManager_clear(c, cf, cache_type, env) ==
    SetDone(cache_type, ClearTiers(Addressed(cache_type, cf), c, env))

\* the stores and the storage behaviour a call starts from
Seen(env) == before' = [cache |-> cache, env |-> env, time |-> now]

GetSeen(key, cache_type, env) ==
    /\ Got(key, cache_type, CacheManager_get(cache, conf, key, cache_type, now, env))
    /\ Seen(env)
    /\ UNCHANGED <<now, ticks, conf, fvars, config, svars, avars, rvars, shadow, deduped, tvars>>

SetSeen(key, value, ttl, cache_type, env) ==
    /\ WasSet(key, value, ttl, cache_type,
              CacheManager_set(cache, conf, key, value, ttl, cache_type, now, env))
    /\ Seen(env)
    /\ UNCHANGED <<now, ticks, conf, fvars, config, svars, avars, rvars, shadow, deduped, tvars>>

Deleted(key, cache_type, r) ==
    /\ cache' = r.cache
    /\ last' = [op |-> "delete", key |-> key, cache_type |-> cache_type,
                time |-> now, ok |-> r.ok, failed |-> r.failed]

Delete(key, cache_type, env) ==
    /\ Deleted(key, cache_type, CacheManager_delete(cache, conf, key, cache_type, env))
    /\ Seen(env)
    /\ UNCHANGED <<now, ticks, conf, fvars, config, svars, avars, rvars, shadow, deduped, tvars>>

Cleared(cache_type, r) ==
    /\ cache' = r.cache
    /\ last' = [op |-> "clear", key |-> "", cache_type |-> cache_type,
                time |-> now, ok |-> r.ok, failed |-> r.failed]

Clear(cache_type, env) ==
    /\ Cleared(cache_type, CacheManager_clear(cache, conf, cache_type, env))
    /\ Seen(env)
    /\ UNCHANGED <<now, ticks, conf, fvars, config, svars, avars, rvars, shadow, deduped, tvars>>

\* the key the calls are about, and a second key that is only ever stored
TierKeys == {"k1"}
OtherKey == "k2"

\* every tier enabled, or all but one
TierConfs == {cf \in Confs : Cardinality(Enabled(cf)) >= 2}

\* Calls at one instant under storage faults.  Storage behaviours tried: any
\* on a call over every tier, healthy on a call restricted to one tier.
ReadEnvs == {env \in Envs : env.fwrite = "ok" /\ (env.db = "ok" \/ ~(env.fread \/ env.funlink))}
WriteEnvs == {env \in Envs : ~env.fread /\ ~env.funlink /\ env.db # "delete_fails"
                              /\ (env.db = "ok" \/ env.fwrite = "ok")}
RemoveEnvs == {Healthy, [Healthy EXCEPT !.funlink = TRUE]}
TierInputs(envs) ==
    [cache_type : {None}, env : envs] \cup [cache_type : CacheTypes, env : {Healthy}]

NextTiers ==
    \/ \E key \in TierKeys, i \in TierInputs(ReadEnvs) : GetSeen(key, i.cache_type, i.env)
    \/ \E key \in TierKeys, i \in TierInputs(WriteEnvs) :
           SetSeen(key, "v1", None, i.cache_type, i.env)
    \/ SetSeen(OtherKey, "v2", None, None, Healthy)
    \/ \E key \in TierKeys, i \in TierInputs(RemoveEnvs) : Delete(key, i.cache_type, i.env)
    \/ \E i \in TierInputs(RemoveEnvs) : Clear(i.cache_type, i.env)

InitTiers ==
    /\ InitCache(TierConfs) /\ InitFetch /\ config = AllOn /\ InitAnnotate /\ InitRun

SpecTiers == InitTiers /\ [][NextTiers]_vars

\* Calls over time: the clock advances to just past a tier's lifetime; the
\* file of a set may be left truncated, and a get may meet a file it cannot
\* read or a database that fails.
ExpiryDurations == {memory_ttl + 1, file_ttl + 1, db_ttl + 1}
ExpiryReadEnvs ==
    {Healthy, [Healthy EXCEPT !.fread = TRUE], [Healthy EXCEPT !.funlink = TRUE],
     [Healthy EXCEPT !.db = "fails"], [Healthy EXCEPT !.db = "delete_fails"]}
ExpiryWriteEnvs == {Healthy, [Healthy EXCEPT !.fwrite = "dump_fails"]}

NextExpiry ==
    \/ Wait(ExpiryDurations)
    \/ \E key \in TierKeys, i \in TierInputs(ExpiryReadEnvs) :
           GetSeen(key, i.cache_type, i.env)
    \/ \E key \in TierKeys, env \in ExpiryWriteEnvs : SetSeen(key, "v1", None, None, env)
    \/ SetSeen(OtherKey, "v2", None, None, Healthy)

InitExpiry ==
    /\ InitCache(TierConfs) /\ InitFetch /\ config = AllOn /\ InitAnnotate /\ InitRun

SpecExpiry == InitExpiry /\ [][NextExpiry]_vars

(***************************************************************************)
(* RSSProcessor.fetch_rss: one source through the aggregate cache          *)
(***************************************************************************)
\* lifetime fetch_rss asks the cache for
fetch_ttl == 3600

Urls == {"u1", "u2"}

\* Items a source may carry.  published is the parsed publication time,
\* None when the item has no published_parsed.
\* summary is the item's summary field (None: the feed gave none), filtered its
\* 'filtered' mark.
ItemA == [id |-> "a", title |-> "X", link |-> "la", published |-> Some(2),
          summary |-> None, filtered |-> FALSE]
ItemB == [id |-> "b", title |-> "X", link |-> "lb", published |-> Some(3610),
          summary |-> None, filtered |-> FALSE]
ItemC == [id |-> "c", title |-> "Y", link |-> "lc", published |-> None,
          summary |-> None, filtered |-> FALSE]

\* the documents a source may serve when asked over the network
Docs(url) == IF url = "u1" THEN {<<ItemA>>, <<ItemA, ItemC>>} ELSE {<<ItemB>>}

\* what feedparser.parse(url) does: a parsed document, a document with
\* bozo_exception set, or an exception
Nets(url) == [kind : {"ok"}, feed : Docs(url)]
             \cup [kind : {"bozo", "raises"}, feed : {<<>>}]

FetchKey(url) == "rss:fetch:" \o url

\* fetch_rss after its cache lookup g
fetch_rss_call(g, cf, url, t, net, env) ==
    IF g.value # None
    THEN [cache |-> g.cache, success |-> TRUE, feed |-> g.value, live |-> FALSE]
    ELSE IF net.kind # "ok"
    THEN [cache |-> g.cache, success |-> FALSE, feed |-> None, live |-> TRUE]
    ELSE [cache |-> CacheManager_set(g.cache, cf, FetchKey(url), net.feed,
                                     Some(fetch_ttl), None, t, env).cache,
          success |-> TRUE, feed |-> Some(net.feed), live |-> TRUE]

\* fetch_rss(url): the stores afterwards, (success, feed), and whether
\* feedparser.parse was called (live)
fetch_rss(c, cf, url, t, net, env) ==
    fetch_rss_call(CacheManager_get(c, cf, FetchKey(url), None, t, env),
                   cf, url, t, net, env)

Fetched(url, r) ==
    /\ cache' = r.cache
    /\ fetched' = [op |-> "fetch_rss", url |-> url, time |-> now,
                   success |-> r.success, feed |-> r.feed, live |-> r.live,
                   since |-> IF url \in DOMAIN live_at THEN Some(live_at[url])
                             ELSE None]
    /\ live_at' = IF r.live THEN Put(live_at, url, now) ELSE live_at

FetchRss(url, net, env) ==
    /\ Fetched(url, fetch_rss(cache, conf, url, now, net, env))
    /\ UNCHANGED <<now, ticks, conf, last, config, avars, rvars, xvars>>

\* storage behaviours tried while fetching
FetchEnvs == {Healthy, [Healthy EXCEPT !.fwrite = "open_fails"], [Healthy EXCEPT !.db = "fails"]}

NextFetch ==
    \/ Tick
    \/ \E url \in Urls : \E net \in Nets(url), env \in FetchEnvs : FetchRss(url, net, env)

InitFetchRss ==
    /\ InitCache(Confs) /\ InitFetch /\ config = AllOn /\ InitAnnotate /\ InitRun

SpecFetch == InitFetchRss /\ [][NextFetch]_vars

\* C10: a fetch_rss(url) made more than 3600 seconds after the last live
\* fetch of that url misses the cache and goes to the network.
C10_LiveAfterOneHour ==
    (/\ fetched.op = "fetch_rss" /\ fetched.time = now
     /\ fetched.since # None
     /\ fetched.time > The(fetched.since) + fetch_ttl)
    => fetched.live

(***************************************************************************)
(* LLMIntegrator.generate_text and FilterManager                           *)
(***************************************************************************)
\* Texts.  What the provider answers with status 200, and the texts
\* generate_text returns in place of an answer (in the code these are Chinese
\* sentences that start with the word for "error"; none contains "yes" or
\* the character for "yes").
Yes == "yes"
No == "no"
SummaryText == "a summary"
ErrNoKey == "error: openai API key not set"
ErrStatus == "error: OpenAI API returned 500"
ErrRaised == "error: calling the LLM API raised"

\* the test filter_entry applies to the lowercased response: it contains the
\* character for "yes" or the word "yes"
ContainsYes(text) == text = Yes

\* What the provider does during one batch: answers (status 200) with verdict
\* to a filter prompt and with summary to a summary prompt, answers with a
\* status other than 200, or the request raises.
Llms == [kind : {"ok"}, verdict : {Yes, No}, summary : {SummaryText, ""}]
        \cup [kind : {"status", "raises"}, verdict : {No}, summary : {""}]

\* _get_entry_hash: md5 of title + link
entry_hash(entry) == entry.title \o entry.link

\* the prompt built for an entry: the task and the entry's title and link
Prompt(task, entry) == task \o ":" \o entry.title \o entry.link

LlmKey(prompt) == "llm:openai:" \o prompt
FilterKey(entry) == "filter:g:" \o entry_hash(entry)
SummaryKey(entry) == "summary:g:" \o entry_hash(entry)

\* what _call_openai returns when it does not raise
LlmResult(reply, llm) == IF llm.kind = "ok" THEN reply ELSE ErrStatus

\* generate_text after its cache lookup g
generate_text_call(g, cf, prompt, reply, llm, t, env) ==
    IF g.value # None
    THEN [cache |-> g.cache, text |-> The(g.value), called |-> FALSE, failed |-> FALSE]
    ELSE IF llm.kind = "raises"
    THEN [cache |-> g.cache, text |-> ErrRaised, called |-> TRUE, failed |-> TRUE]
    ELSE [cache |-> CacheManager_set(g.cache, cf, LlmKey(prompt), LlmResult(reply, llm),
                                     None, None, t, env).cache,
          text |-> LlmResult(reply, llm), called |-> TRUE, failed |-> llm.kind # "ok"]

\* generate_text(prompt): the stores afterwards, the text returned, whether the
\* provider was called and whether the call failed (no key, status, exception)
generate_text(c, cf, cfg, prompt, reply, llm, t, env) ==
    IF ~cfg.api_key
    THEN [cache |-> c, text |-> ErrNoKey, called |-> FALSE, failed |-> TRUE]
    ELSE generate_text_call(CacheManager_get(c, cf, LlmKey(prompt), None, t, env),
                            cf, prompt, reply, llm, t, env)

\* filter_entry returning its verdict without caching it
filter_entry_parse_forgets(r, cf, entry, t, env) ==
    [cache |-> r.cache,
     keep |-> ContainsYes(r.text), failed |-> r.failed, called |-> r.called]

\* filter_entry once generate_text has returned r: parse, cache, return
filter_entry_parse(r, cf, entry, t, env) ==
    [cache |-> CacheManager_set(r.cache, cf, FilterKey(entry), ContainsYes(r.text),
                                None, None, t, env).cache,
     keep |-> ContainsYes(r.text), failed |-> r.failed, called |-> r.called]

\* filter_entry after its cache lookup g
filter_entry_call(g, cf, cfg, entry, llm, t, env) ==
    IF g.value # None
    THEN [cache |-> g.cache, keep |-> The(g.value), failed |-> FALSE, called |-> FALSE]
    ELSE filter_entry_parse(
             generate_text(g.cache, cf, cfg, Prompt("filter", entry), llm.verdict,
                           llm, t, env),
             cf, entry, t, env)

\* filter_entry(entry, group): the stores afterwards, the bool returned,
\* whether generate_text was asked and failed, and whether the provider was
\* called
filter_entry(c, cf, cfg, entry, llm, t, env) ==
    IF ~cfg.filter_enabled
    THEN [cache |-> c, keep |-> TRUE, failed |-> FALSE, called |-> FALSE]
    ELSE filter_entry_call(CacheManager_get(c, cf, FilterKey(entry), None, t, env),
                           cf, cfg, entry, llm, t, env)

\* generate_summary once generate_text has returned r: cache, return
generate_summary_store(r, cf, entry, t, env) ==
    [cache |-> CacheManager_set(r.cache, cf, SummaryKey(entry), r.text,
                                None, None, t, env).cache,
     summary |-> Some(r.text), failed |-> r.failed, called |-> r.called]

\* generate_summary after its cache lookup g
generate_summary_call(g, cf, cfg, entry, llm, t, env) ==
    IF g.value # None
    THEN [cache |-> g.cache, summary |-> g.value, failed |-> FALSE, called |-> FALSE]
    ELSE generate_summary_store(
             generate_text(g.cache, cf, cfg, Prompt("summary", entry), llm.summary,
                           llm, t, env),
             cf, entry, t, env)

\* generate_summary(entry, group): the stores afterwards, the Optional text
\* returned, whether generate_text was asked and failed, and whether the
\* provider was called
generate_summary(c, cf, cfg, entry, llm, t, env) ==
    IF ~cfg.summary_enabled
    THEN [cache |-> c, summary |-> None, failed |-> FALSE, called |-> FALSE]
    ELSE generate_summary_call(CacheManager_get(c, cf, SummaryKey(entry), None, t, env),
                               cf, cfg, entry, llm, t, env)

\* if summary: entry['summary'] = summary
WithSummary(entry, summary) ==
    IF summary # None /\ summary # Some("")
    THEN [entry EXCEPT !.summary = summary]
    ELSE entry

\* the rest of one pass of the loop once generate_summary has returned m
process_summarised(m, f, entry) ==
    [cache |-> m.cache,
     out |-> Some([WithSummary(entry, m.summary) EXCEPT !.filtered = TRUE]),
     note |-> [id |-> entry.id, filter_failed |-> f.failed, kept |-> TRUE,
               summary_failed |-> m.failed, returned |-> m.summary,
               summary |-> WithSummary(entry, m.summary).summary,
               filter_called |-> f.called, summary_called |-> m.called]]

\* the rest of one pass of the loop once filter_entry has returned f
process_filtered(f, cf, cfg, entry, llm, t, env) ==
    IF ~f.keep
    THEN [cache |-> f.cache, out |-> None,
          note |-> [id |-> entry.id, filter_failed |-> f.failed, kept |-> FALSE,
                    summary_failed |-> FALSE, returned |-> None, summary |-> None,
                    filter_called |-> f.called, summary_called |-> FALSE]]
    ELSE process_summarised(generate_summary(f.cache, cf, cfg, entry, llm, t, env),
                            f, entry)

\* One pass of the loop of batch_process_entries over entry: the stores
\* afterwards, the entry as appended to processed_entries (None: dropped),
\* and what happened to it.
process_entry(c, cf, cfg, entry, llm, t, env) ==
    process_filtered(filter_entry(c, cf, cfg, entry, llm, t, env),
                     cf, cfg, entry, llm, t, env)

\* the result of one pass p followed by the result of the passes after it
batch_join(p, rest) ==
    [cache |-> rest.cache,
     processed |-> (IF p.out = None THEN <<>> ELSE <<The(p.out)>>) \o rest.processed,
     notes |-> <<p.note>> \o rest.notes]

\* batch_process_entries(entries, group): the stores afterwards, the list
\* returned, and one note per input entry
RECURSIVE batch_loop(_, _, _, _, _, _, _)
RECURSIVE batch_rest(_, _, _, _, _, _, _)
batch_loop(c, cf, cfg, entries, llm, t, env) ==
    IF entries = <<>>
    THEN [cache |-> c, processed |-> <<>>, notes |-> <<>>]
    ELSE batch_rest(process_entry(c, cf, cfg, Head(entries), llm, t, env),
                    cf, cfg, Tail(entries), llm, t, env)

batch_rest(p, cf, cfg, entries, llm, t, env) ==
    batch_join(p, batch_loop(p.cache, cf, cfg, entries, llm, t, env))

batch_process_entries(c, cf, cfg, entries, llm, t, env) ==
    IF ~cfg.filter_enabled /\ ~cfg.summary_enabled
    THEN [cache |-> c, processed |-> entries, notes |-> <<>>]
    ELSE batch_loop(c, cf, cfg, entries, llm, t, env)

\* the lists handed to batch_process_entries
Batches == {<<ItemA>>, <<ItemC, ItemA>>}


\* prev: when the batch before this one ran, what happened to its items, and
\* whether it was the first batch (it started from empty stores)
Batched(entries, r) ==
    /\ cache' = r.cache
    /\ annotated' = [op |-> "batch", time |-> now, entries |-> entries,
                     processed |-> r.processed, notes |-> r.notes,
                     prev |-> IF annotated = NoOp
                              THEN None
                              ELSE IF annotated.prev = None
                              THEN Some([time |-> annotated.time,
                                         notes |-> annotated.notes,
                                         first |-> TRUE])
                              ELSE Some([time |-> 0, notes |-> <<>>,
                                         first |-> FALSE])]

BatchProcess(entries, llm, env) ==
    /\ Batched(entries, batch_process_entries(cache, conf, config, entries, llm, now, env))
    /\ UNCHANGED <<now, ticks, conf, last, fvars, config, rvars, xvars>>

\* the group's filter and summary switches and whether the API key is set
AnnotateConfigs ==
    [urls : {<<"u1", "u2">>}, dedup_enabled : {TRUE}, dedup_days : {3},
     filter_enabled : BOOLEAN, summary_enabled : BOOLEAN, api_key : BOOLEAN]

InitBatch ==
    /\ InitCache(Confs) /\ InitFetch /\ config \in AnnotateConfigs
    /\ InitAnnotate /\ InitRun

NextAnnotate ==
    \/ Tick
    \/ \E entries \in Batches, llm \in Llms : BatchProcess(entries, llm, Healthy)

SpecAnnotate == InitBatch /\ [][NextAnnotate]_vars

\* fewer than two batches have run
BeforeSecond == IF annotated = NoOp THEN TRUE ELSE annotated.prev = None

\* the same group annotated at most twice, some time apart
NextTwice ==
    \/ Tick
    \/ \E entries \in Batches, llm \in Llms :
           BeforeSecond /\ BatchProcess(entries, llm, Healthy)

SpecTwice == InitBatch /\ [][NextTwice]_vars

Notes == {annotated.notes[i] : i \in 1..Len(annotated.notes)}

\* C5: when the filter capability fails for an item (status other than 200,
\* request raising, API key missing), filter_entry returns true and the item
\* is in the processed list.
C5_FilterFailsOpen ==
    annotated.op = "batch"
    => \A note \in Notes : note.filter_failed => note.kept

\* C6: when the summarizer capability fails for an item, generate_summary
\* returns absent and the item's summary field is left as it was.
C6_SummaryFailureSetsNothing ==
    annotated.op = "batch"
    => \A note \in Notes : note.summary_failed
           => /\ note.returned = None
              /\ \A i \in 1..Len(annotated.entries) :
                     annotated.entries[i].id = note.id
                     => note.summary = annotated.entries[i].summary

\* the longest default lifetime among the enabled tiers
SlowestTtl(cf) ==
    IF cf.db_enabled THEN db_ttl ELSE IF cf.file_enabled THEN file_ttl ELSE memory_ttl

\* the notes of the batch before the last one
PrevNotes ==
    {The(annotated.prev).notes[i] : i \in 1..Len(The(annotated.prev).notes)}

\* the last batch is the second one, run within the cache TTL of the first
\* (which started from empty stores), with a tier enabled
AnnotatedTwice ==
    /\ annotated.op = "batch" /\ annotated.prev # None
    /\ The(annotated.prev).first
    /\ Enabled(conf) # {}
    /\ annotated.time - The(annotated.prev).time <= SlowestTtl(conf)

\* the provider calls made for one capability over the two batches
Calls(first, second) ==
    (IF first THEN 1 ELSE 0) + (IF second THEN 1 ELSE 0)

\* C25 (as stated): with at least one cache tier enabled and writable,
\* annotating the same item twice in sequence within the cache TTL issues
\* exactly one underlying text-generation call per enabled capability
\* (filter, summary): the second invocation is answered from the cache.
C25_ExactlyOneCallEach ==
    AnnotatedTwice
    => \A n1 \in PrevNotes, n2 \in Notes :
           n1.id = n2.id
           => /\ config.filter_enabled
                 => Calls(n1.filter_called, n2.filter_called) = 1
              /\ config.summary_enabled
                 => Calls(n1.summary_called, n2.summary_called) = 1

\* C25 (amended): with at least one cache tier enabled and writable,
\* annotating the same item twice in sequence within the cache TTL issues at
\* most one underlying text-generation call per enabled capability (none for
\* a capability whose API key is missing, none for the summary of an item the
\* filter rejects), and the second invocation issues none: it is answered
\* from the cache.
C25_AtMostOneCallEach ==
    AnnotatedTwice
    => \A n1 \in PrevNotes, n2 \in Notes :
           n1.id = n2.id
           => /\ ~n2.filter_called /\ ~n2.summary_called
              /\ n2.kept = n1.kept
              /\ (config.filter_enabled /\ config.api_key) => n1.filter_called
              /\ (config.summary_enabled /\ config.api_key /\ n1.kept)
                 => n1.summary_called

\* C25 witness: an item for which the first batch called the provider for the
\* filter and for the summary, annotated again two seconds later without a
\* call
C25_Witness ==
    /\ AnnotatedTwice
    /\ annotated.time = The(annotated.prev).time + 2
    /\ \E n1 \in PrevNotes, n2 \in Notes :
           /\ n1.id = n2.id
           /\ n1.filter_called /\ n1.summary_called
           /\ ~n2.filter_called /\ ~n2.summary_called /\ n2.kept

(***************************************************************************)
(* Properties of the cache                                                 *)
(***************************************************************************)
Slower(tier) ==
    CASE tier = "memory" -> {"file", "db"}
      [] tier = "file" -> {"db"}
      [] OTHER -> {}

JustDone(op) == last.op = op /\ last.time = now

\* C2: after set(K, V, ttl=1) on every tier and a wait of at least
\* 2 seconds, a get of K restricted to any enabled tier returns absent.
C2_ExpiresOnEveryTier ==
    (/\ last.op = "set" /\ last.cache_type = None /\ last.ttl = Some(1)
     /\ now >= last.time + 2)
    => \A tier \in Enabled(conf) : TierGet(cache, conf, last.key, tier, now) = None

\* tier holds v under key, written now, to live the tier's own default ttl
FreshIn(tier, key, v) ==
    /\ key \in DOMAIN cache[tier]
    /\ CASE tier = "memory" ->
                cache.memory[key] = [value |-> v, expires_at |-> now + memory_ttl]
         [] tier = "file" ->
                /\ cache.file[key] = [value |-> Some(v), mtime |-> now, corrupt |-> FALSE]
                /\ now - cache.file[key].mtime <= file_ttl
         [] OTHER -> FALSE

\* C3 (as stated): when get(key) without cache_type is answered by tier k > 0,
\* then on return every enabled tier faster than k holds the found value with a
\* lifetime that starts now and lasts that tier's own default TTL.
C3_BackfillsEveryFasterTier ==
    (JustDone("get") /\ last.cache_type = None /\ last.hit \in {"file", "db"})
    => \A tier \in SearchedBefore(last.hit) \cap Enabled(conf) :
           FreshIn(tier, last.key, The(last.value))

\* C3 (amended): when get(key) without cache_type is answered by tier k > 0,
\* then on return every enabled tier faster than k whose write succeeded (the
\* memory tier always; the file tier unless its write fails, which get
\* ignores) holds the found value with a lifetime that starts now and lasts
\* that tier's own default TTL.
C3_BackfillsFasterTiersWritten ==
    (JustDone("get") /\ last.cache_type = None /\ last.hit \in {"file", "db"})
    => /\ \A tier \in (SearchedBefore(last.hit) \cap Enabled(conf)) \ last.failed :
              FreshIn(tier, last.key, The(last.value))
       /\ "memory" \notin last.failed

\* C3 witness: a db hit on an entry written earlier refilled memory and file
C3_Witness ==
    /\ JustDone("get") /\ last.cache_type = None /\ last.hit = "db"
    /\ Enabled(conf) = Tiers /\ last.failed = {}
    /\ cache.db[last.key].created_at < now
    /\ FreshIn("memory", last.key, The(last.value))
    /\ FreshIn("file", last.key, The(last.value))

\* C4: after a get(K) that the file or db tier answered with the memory tier
\* enabled, every further get(K) issued before memory_ttl has elapsed reads
\* the memory tier only and returns the same value.
C4_SecondGetFromMemory ==
    (/\ last.op = "get" /\ last.promoted # None
     /\ The(last.promoted).n = 2)
    => /\ last.reads = {"memory"}
       /\ last.hit = "memory"
       /\ last.value = Some(The(last.promoted).value)

\* C4 witness: a later get, at a later time than the promoting one, read
\* the memory tier only
C4_Witness ==
    /\ last.op = "get" /\ last.promoted # None
    /\ The(last.promoted).n = 2
    /\ last.time > The(last.promoted).at
    /\ last.reads = {"memory"}

\* l is a get on every tier, answered by a tier faster than one whose write
\* failed in the set just before it
AfterFailedDurableWrite(l) ==
    /\ l.op = "get" /\ l.cache_type = None
    /\ l.hit \in {"memory", "file"}
    /\ l.after_failed \cap Slower(l.hit) # {}

\* C8 (as stated): after a set in which a durable tier's write failed while a
\* faster tier's succeeded, the next get that hits the faster tier leaves the
\* value in the durable tier that missed it.
C8_ReadHealsDurableTier ==
    (JustDone("get") /\ AfterFailedDurableWrite(last))
    => \A tier \in last.after_failed \cap Slower(last.hit) :
           TierGet(cache, conf, last.key, tier, now) = last.value

\* C8 (amended): after a set in which a durable tier's write failed while a
\* faster tier's succeeded, the next get that hits the faster tier returns the
\* value and writes to no slower tier: the durable tier that missed the value
\* is left as the failed set left it.
C8_ReadLeavesSlowerTiers ==
    AfterFailedDurableWrite(last)
    => /\ last.value # None
       /\ Slower(last.hit) \subseteq last.untouched

\* C8 witness: the set's db write failed, the next get was answered by
\* memory, and the db tier still has no row for the key
C8_Witness ==
    /\ JustDone("get") /\ AfterFailedDurableWrite(last)
    /\ "db" \in last.after_failed
    /\ last.hit = "memory"
    /\ last.key \notin DOMAIN cache.db

\* C9: when set(K, V) on every tier fails on some tier, every
\* other enabled tier holds V and K is absent in the tier that failed, also
\* when that tier held an older value.
C9_FailedTierHoldsNothing ==
    (JustDone("set") /\ last.cache_type = None /\ last.failed # {})
    => /\ \A tier \in Enabled(conf) \ last.failed :
              TierGet(cache, conf, last.key, tier, now) = last.value
       /\ \A tier \in last.failed :
              TierGet(cache, conf, last.key, tier, now) = None

(***************************************************************************)
(* Two CacheManagers given the same calls at the same times: one with the  *)
(* memory tier (stores cache, switches conf), one configured alike but     *)
(* with memory_enabled false (stores shadow)                               *)
(***************************************************************************)
WithoutMemory(cf) == [cf EXCEPT !.memory_enabled = FALSE]

\* the memory tier and at least one durable tier enabled
PairConfs == {cf \in Confs : cf.memory_enabled /\ (cf.file_enabled \/ cf.db_enabled)}

PairGot(key, r, twin) ==
    /\ cache' = r.cache
    /\ shadow' = twin.cache
    /\ last' = [op |-> "get", key |-> key, time |-> now, paired |-> TRUE,
                value |-> r.value, hit |-> r.hit,
                twin_value |-> twin.value, twin_hit |-> twin.hit]

PairGet(key) ==
    /\ PairGot(key,
               CacheManager_get(cache, conf, key, None, now, Healthy),
               CacheManager_get(shadow, WithoutMemory(conf), key, None, now, Healthy))
    /\ UNCHANGED <<now, ticks, conf, fvars, config, svars, avars, rvars, before, deduped, tvars>>

PairWasSet(key, value, ttl, r, twin) ==
    /\ cache' = r.cache
    /\ shadow' = twin.cache
    /\ last' = [op |-> "set", key |-> key, time |-> now, paired |-> TRUE,
                value |-> Some(value), ttl |-> ttl, ok |-> r.ok, twin_ok |-> twin.ok]

PairSet(key, value, ttl) ==
    /\ PairWasSet(key, value, ttl,
                  CacheManager_set(cache, conf, key, value, ttl, None, now, Healthy),
                  CacheManager_set(shadow, WithoutMemory(conf), key, value, ttl, None,
                                   now, Healthy))
    /\ UNCHANGED <<now, ticks, conf, fvars, config, svars, avars, rvars, before, deduped, tvars>>

NextPair ==
    \/ WaitUpTo(Durations, MaxPairWaits)
    \/ \E key \in Keys : PairGet(key)
    \/ \E key \in Keys, value \in Values, ttl \in Ttls : PairSet(key, value, ttl)

InitPair ==
    /\ InitCache(PairConfs) /\ InitFetch /\ config = AllOn /\ InitAnnotate /\ InitRun

SpecPair == InitPair /\ [][NextPair]_vars

\* C16: for any sequence of get and set operations, the cache without the
\* memory tier returns from every get what the cache with the memory tier
\* returns from the same get at the same time.
C16_SameAnswersWithoutMemory ==
    (last.op = "get" /\ last.paired) => last.twin_value = last.value

(***************************************************************************)
(* Properties of the cache, against the stores each call started from      *)
(***************************************************************************)
\* the entry tier holds for key in stores c is past its expiry at time t
Expired(tier, c, key, t) ==
    /\ key \in DOMAIN c[tier]
    /\ CASE tier = "memory" -> t > c.memory[key].expires_at
         [] tier = "file" -> t - c.file[key].mtime > file_ttl
         [] tier = "db" -> t - c.db[key].created_at > db_ttl

\* the file tier's entry for key cannot be read back in this call
Unreadable(tier, c, key, env) ==
    /\ tier = "file"
    /\ key \in DOMAIN c.file
    /\ (env.fread \/ c.file[key].corrupt)

MissedEverywhere ==
    /\ last.op = "get" /\ last.cache_type = None
    /\ last.hit = "none" /\ ~last.raised

\* C11 (as stated): a get(key) that misses on every tier returns absent and
\* leaves the content of every tier exactly as it was before the call.
C11_MissChangesNothing ==
    MissedEverywhere => last.value = None /\ cache = before.cache

\* C11 (amended): a get(key) that misses on every tier returns absent, writes
\* nothing to any tier and leaves every other key's entries as they were; the
\* only change it makes to a tier is the removal of key's own entry where that
\* entry is past its expiry or cannot be read.
C11_MissOnlyPurges ==
    MissedEverywhere
    => /\ last.value = None
       /\ last.wrote = {} /\ last.failed = {}
       /\ \A tier \in Tiers :
              \/ cache[tier] = before.cache[tier]
              \/ /\ cache[tier] = Remove(before.cache[tier], last.key)
                 /\ \/ Expired(tier, before.cache, last.key, last.time)
                    \/ Unreadable(tier, before.cache, last.key, before.env)

\* C11 witness: a miss on every tier that purged the key's expired entries
\* while the other key stayed stored in every tier
C11_Witness ==
    /\ MissedEverywhere
    /\ Enabled(conf) = Tiers
    /\ \A tier \in Tiers : last.key \in DOMAIN before.cache[tier]
    /\ \A tier \in Tiers : last.key \notin DOMAIN cache[tier]
    /\ \A tier \in Tiers : OtherKey \in DOMAIN cache[tier]

\* the tier's storage carries out a removal asked of it during this call
Removes(tier, env) ==
    CASE tier = "memory" -> TRUE
      [] tier = "file" -> ~env.funlink
      [] tier = "db" -> env.db = "ok"

OnDisabledTier ==
    /\ last.op \in {"get", "set", "delete", "clear"}
    /\ last.cache_type # None
    /\ The(last.cache_type) \notin Enabled(conf)

\* C13: an operation restricted to one tier by cache_type fails when that
\* tier is disabled (get returns absent; set, delete and clear return false)
\* and neither reads nor writes any other tier.
C13_DisabledTierFails ==
    OnDisabledTier
    => /\ cache = before.cache
       /\ last.op = "get" => last.value = None /\ last.reads = {} /\ ~last.raised
       /\ last.op # "get" => ~last.ok

\* C13 witness: a set restricted to the disabled memory tier returned false
\* while the file and db tiers held the key and kept it
C13_Witness ==
    /\ OnDisabledTier
    /\ last.op = "set" /\ last.cache_type = Some("memory") /\ ~last.ok
    /\ last.key \in DOMAIN cache.file
    /\ last.key \in DOMAIN cache.db

\* the storage fault of this call strikes tier
Struck(tier, env) ==
    \/ tier = "file" /\ (env.fread \/ env.funlink)
    \/ tier = "db" /\ env.db # "ok"

\* C14: a storage error on one key in one tier during get is a miss in that
\* tier only: the get over every tier does not end in an error, goes on to the
\* next tiers and returns the value when a tier the error does not strike
\* holds an unexpired entry; the file tier's unreadable entry is evicted.
C14_StorageErrorIsAMiss ==
    (last.op = "get" /\ last.cache_type = None /\ before.env # Healthy)
    => /\ ~last.raised
       /\ \A tier \in Enabled(conf) :
              (/\ ~Struck(tier, before.env)
               /\ TierGet(before.cache, conf, last.key, tier, last.time) # None)
              => last.value # None
       /\ (/\ before.env.fread /\ "file" \in last.reads
           /\ last.key \in DOMAIN before.cache.file)
          => last.key \notin DOMAIN cache.file \/ "file" \in last.wrote

\* the write of a set reaches tier under this storage behaviour
WriteWorks(tier, env) ==
    CASE tier = "memory" -> TRUE
      [] tier = "file" -> env.fwrite = "ok"
      [] tier = "db" -> env.db # "fails"

\* tier holds the value of the latest set, stamped at the time of that set
StoredByLast(tier) ==
    /\ last.key \in DOMAIN cache[tier]
    /\ CASE tier = "memory" ->
                cache.memory[last.key] =
                    [value |-> The(last.value),
                     expires_at |-> last.time + (IF last.ttl = None THEN memory_ttl
                                                 ELSE The(last.ttl))]
         [] tier = "file" ->
                cache.file[last.key] =
                    [value |-> last.value, mtime |-> last.time, corrupt |-> FALSE]
         [] tier = "db" ->
                cache.db[last.key] = [value |-> The(last.value), created_at |-> last.time]

\* C15: set without cache_type attempts the write on every enabled tier, also
\* after an earlier tier's write failed, and returns success exactly when
\* every enabled tier's write succeeded.
C15_SetWritesEveryTier ==
    (last.op = "set" /\ last.cache_type = None)
    => /\ last.ok = (\A tier \in Enabled(conf) : WriteWorks(tier, before.env))
       /\ \A tier \in Enabled(conf) : WriteWorks(tier, before.env) => StoredByLast(tier)
       /\ last.failed = {tier \in Enabled(conf) : ~WriteWorks(tier, before.env)}

\* C15 witness: the file tier's write failed, the db tier was written all the
\* same, and set returned false
C15_Witness ==
    /\ last.op = "set" /\ last.cache_type = None
    /\ Enabled(conf) = Tiers
    /\ ~WriteWorks("file", before.env)
    /\ StoredByLast("memory") /\ StoredByLast("db")
    /\ ~last.ok

(***************************************************************************)
(* RSSProcessor.deduplicate_entries                                        *)
(***************************************************************************)
SecondsPerDay == 86400

Abs(n) == IF n < 0 THEN 0 - n ELSE n

\* The sort key: published_parsed, or datetime.now().timetuple() for an item
\* without one.  The keys are struct_time tuples: at the same second the
\* clock's tuple (tm_isdst = -1) is below a feed's (tm_isdst = 0).
SortKey(entry, t) ==
    IF entry.published = None THEN 2 * t ELSE 2 * The(entry.published) + 1

\* a sort in ascending order
RECURSIVE InsertDesc_ascending(_, _, _)
InsertDesc_ascending(sorted, entry, t) ==
    IF sorted = <<>>
    THEN <<entry>>
    ELSE IF SortKey(Head(sorted), t) <= SortKey(entry, t)
         THEN <<Head(sorted)>> \o InsertDesc_ascending(Tail(sorted), entry, t)
         ELSE <<entry>> \o sorted

\* entries.sort(key=..., reverse=True): descending and stable
RECURSIVE InsertDesc(_, _, _)
InsertDesc(sorted, entry, t) ==
    IF sorted = <<>>
    THEN <<entry>>
    ELSE IF SortKey(Head(sorted), t) >= SortKey(entry, t)
         THEN <<Head(sorted)>> \o InsertDesc(Tail(sorted), entry, t)
         ELSE <<entry>> \o sorted

RECURSIVE SortDesc(_, _)
SortDesc(list, t) ==
    IF list = <<>>
    THEN <<>>
    ELSE InsertDesc(SortDesc(SubSeq(list, 1, Len(list) - 1), t), list[Len(list)], t)

\* the loop keeping an item whose distance in days equals the window
RECURSIVE dedup_loop_ge(_, _, _)
dedup_loop_ge(list, title_time_map, days) ==
    IF list = <<>>
    THEN <<>>
    ELSE LET entry == Head(list)
             published_time == The(entry.published)
             kept == Put(title_time_map, entry.title, published_time)
         IN  IF entry.title = "" \/ entry.published = None
             THEN <<entry>> \o dedup_loop_ge(Tail(list), title_time_map, days)
             ELSE IF entry.title \notin DOMAIN title_time_map
             THEN <<entry>> \o dedup_loop_ge(Tail(list), kept, days)
             ELSE IF Abs((published_time - title_time_map[entry.title]) \div SecondsPerDay)
                     >= days
             THEN <<entry>> \o dedup_loop_ge(Tail(list), kept, days)
             ELSE dedup_loop_ge(Tail(list), title_time_map, days)

\* the loop recording the time of every item seen, dropped ones too
RECURSIVE dedup_loop_seen(_, _, _)
dedup_loop_seen(list, title_time_map, days) ==
    IF list = <<>>
    THEN <<>>
    ELSE LET entry == Head(list)
             published_time == The(entry.published)
             kept == Put(title_time_map, entry.title, published_time)
         IN  IF entry.title = "" \/ entry.published = None
             THEN <<entry>> \o dedup_loop_seen(Tail(list), title_time_map, days)
             ELSE IF entry.title \notin DOMAIN title_time_map
             THEN <<entry>> \o dedup_loop_seen(Tail(list), kept, days)
             ELSE IF Abs((published_time - title_time_map[entry.title]) \div SecondsPerDay)
                     > days
             THEN <<entry>> \o dedup_loop_seen(Tail(list), kept, days)
             ELSE dedup_loop_seen(Tail(list), kept, days)

\* the loop over the sorted entries; title_time_map: title -> time last kept
RECURSIVE dedup_loop(_, _, _)
dedup_loop(list, title_time_map, days) ==
    IF list = <<>>
    THEN <<>>
    ELSE LET entry == Head(list)
             published_time == The(entry.published)
             kept == Put(title_time_map, entry.title, published_time)
         IN  IF entry.title = "" \/ entry.published = None
             THEN <<entry>> \o dedup_loop(Tail(list), title_time_map, days)
             ELSE IF entry.title \notin DOMAIN title_time_map
             THEN <<entry>> \o dedup_loop(Tail(list), kept, days)
             ELSE IF Abs((published_time - title_time_map[entry.title]) \div SecondsPerDay)
                     > days
             THEN <<entry>> \o dedup_loop(Tail(list), kept, days)
             ELSE dedup_loop(Tail(list), title_time_map, days)

deduplicate_entries(list, days, t) ==
    IF Len(list) < 2
    THEN list
    ELSE dedup_loop(SortDesc(list, t), [title \in {} |-> 0], days)

\* deduplicate_entries called once on a list of items, and called again on
\* what it returned, the clock read at each call
MaxLen == 3
Windows == {1, 3}

Story(id, title, published) ==
    [id |-> id, title |-> title, link |-> "l" \o id, published |-> published,
     summary |-> None, filtered |-> FALSE]

\* Items of one title two days apart (Day2, Day4), one second less than a day
\* apart (Day2, Day3m, Day4m), exactly a day apart (Day2, Day3, Day4) and one
\* second more than a day apart (Day3m, Day4); an item without a timestamp and
\* an item without a title.
Day2 == Story("a2", "A", Some(2 * SecondsPerDay))
Day3m == Story("a3m", "A", Some(3 * SecondsPerDay - 1))
Day3 == Story("a3", "A", Some(3 * SecondsPerDay))
Day4m == Story("a4m", "A", Some(4 * SecondsPerDay - 2))
Day4 == Story("a4", "A", Some(4 * SecondsPerDay))
Untimed == Story("c", "C", None)
Untitled == Story("n", "", Some(0))
DedupItems == {Day2, Day3m, Day3, Day4m, Day4, Untimed, Untitled}

DedupLists == UNION {[1..n -> DedupItems] : n \in 0..MaxLen}

\* The item carries the key published_parsed with the value None (a date that
\* could not be parsed): x.get('published_parsed', default) then gives None,
\* not the default.
Unparsed(entry) == "unparsed" \in DOMAIN entry

\* entries.sort compares the keys with <: a None key among two or more items
\* is a TypeError, which leaves deduplicate_entries
deduplicate_entries_raises(list) ==
    Len(list) >= 2 /\ \E i \in DOMAIN list : Unparsed(list[i])

Dedup(list, days) ==
    /\ deduped = NoOp
    /\ deduped' = [op |-> "dedup", input |-> list, days |-> days, time |-> now,
                   raised |-> deduplicate_entries_raises(list),
                   output |-> IF deduplicate_entries_raises(list)
                              THEN <<>>
                              ELSE deduplicate_entries(list, days, now),
                   again |-> None]
    /\ UNCHANGED <<now, ticks, cvars, fvars, config, svars, avars, rvars, before, shadow, tvars>>

DedupAgain ==
    /\ deduped.op = "dedup"
    /\ ~deduped.raised
    /\ deduped.again = None
    /\ deduped' = [deduped EXCEPT !.again =
                       Some([time |-> now,
                             output |-> deduplicate_entries(deduped.output,
                                                            deduped.days, now)])]
    /\ UNCHANGED <<now, ticks, cvars, fvars, config, svars, avars, rvars, before, shadow, tvars>>

\* a week passes
DedupDurations == {7 * SecondsPerDay}

\* the repetition has been observed: nothing later in the behaviour is looked at
Repeated == IF deduped = NoOp THEN FALSE ELSE deduped.again # None

NextDedup ==
    \/ ~Repeated /\ Wait(DedupDurations)
    \/ \E list \in DedupLists, days \in Windows : Dedup(list, days)
    \/ DedupAgain

InitDedup ==
    /\ InitCache({AllTiers}) /\ InitFetch /\ config = AllOn /\ InitAnnotate /\ InitRun

SpecDedup == InitDedup /\ [][NextDedup]_vars

\* deduplicate_entries on lists that hold items without a title, without the
\* key published_parsed, and with the key but no parsed date
NoDate ==
    [id |-> "u", title |-> "U", link |-> "lu", published |-> None,
     summary |-> None, filtered |-> FALSE, unparsed |-> TRUE]
AnyItems == {Day2, Day3, Untimed, Untitled, NoDate}
AnyLists == UNION {[1..n -> AnyItems] : n \in 0..MaxLen}

NextDedupAny == \E list \in AnyLists, days \in Windows : Dedup(list, days)

SpecDedupAny == InitDedup /\ [][NextDedupAny]_vars

RemoveAt(list, i) == SubSeq(list, 1, i - 1) \o SubSeq(list, i + 1, Len(list))

Range(list) == {list[i] : i \in DOMAIN list}
Count(list, x) == Cardinality({i \in DOMAIN list : list[i] = x})
Timed(entry) == entry.title # "" /\ entry.published # None

\* C17: deduplicate_entries is idempotent: applied to its own output it
\* returns the same list, same items in the same order, as applied once.
C17_DedupIdempotent ==
    (deduped.op = "dedup" /\ deduped.again # None)
    => The(deduped.again).output = deduped.output

\* C18: the output of deduplicate_entries never contains two items with the
\* same non-empty title that both carry a timestamp and whose published times
\* differ by at most window_days days; two same-title items 2 days apart give
\* one item (the later) for window 3 and two items for window 1.
C18_NoTwoWithinWindow ==
    deduped.op = "dedup"
    => /\ \A i, j \in DOMAIN deduped.output :
              (/\ i # j
               /\ Timed(deduped.output[i]) /\ Timed(deduped.output[j])
               /\ deduped.output[i].title = deduped.output[j].title)
              => Abs(The(deduped.output[i].published) - The(deduped.output[j].published))
                     > deduped.days * SecondsPerDay
       /\ Range(deduped.input) = {Day2, Day4} /\ Len(deduped.input) = 2
          => /\ deduped.days = 3 => deduped.output = <<Day4>>
             /\ deduped.days = 1 => Len(deduped.output) = 2

\* C18 witness: the two items 2 days apart, earlier first, deduplicated with
\* window 3 to the later one
C18_Witness ==
    /\ deduped.op = "dedup" /\ deduped.days = 3
    /\ deduped.input = <<Day2, Day4>>
    /\ deduped.output = <<Day4>>

\* C19: the later-published item wins: every item dropped by
\* deduplicate_entries has in the output an item of the same title whose
\* published time is not earlier than the dropped item's and at most
\* window_days days later than it.
C19_LaterItemWins ==
    deduped.op = "dedup"
    => \A x \in Range(deduped.input) :
           Count(deduped.output, x) < Count(deduped.input, x)
           => /\ Timed(x)
              /\ \E y \in Range(deduped.output) :
                     /\ Timed(y) /\ y.title = x.title
                     /\ The(y.published) >= The(x.published)
                     /\ The(y.published) - The(x.published) <= deduped.days * SecondsPerDay

\* C19 witness: an item was dropped in favour of a different, later one
C19_Witness ==
    /\ deduped.op = "dedup"
    /\ \E x \in Range(deduped.input) :
           /\ x \notin Range(deduped.output)
           /\ \E y \in Range(deduped.output) :
                  y.title = x.title /\ The(y.published) > The(x.published)

\* the input is three items of one title, each consecutive pair at most the
\* window apart and the first and last more than the window apart
ThreeInAChain(list, days) ==
    /\ Len(list) = 3
    /\ \A i \in 1..3 : Timed(list[i]) /\ list[i].title = list[1].title
    /\ \E newest, middle, oldest \in Range(list) :
           /\ The(newest.published) > The(middle.published)
           /\ The(middle.published) > The(oldest.published)
           /\ The(newest.published) - The(middle.published) <= days * SecondsPerDay
           /\ The(middle.published) - The(oldest.published) <= days * SecondsPerDay
           /\ The(newest.published) - The(oldest.published) > days * SecondsPerDay

\* C20 (as stated): three items of the same title, each consecutive pair
\* spaced just under window_days apart and the first and last more than
\* window_days apart, are all three retained.
C20_ChainAllRetained ==
    (deduped.op = "dedup" /\ ThreeInAChain(deduped.input, deduped.days))
    => Len(deduped.output) = 3

\* C20 (amended): of three items of the same title, each consecutive pair
\* spaced just under window_days apart and the first and last more than
\* window_days apart, the newest and the oldest are retained and the middle
\* one is dropped, because each item is compared with the timestamp of the
\* last retained item of that title.
C20_ChainKeepsEnds ==
    (deduped.op = "dedup" /\ ThreeInAChain(deduped.input, deduped.days))
    => /\ Len(deduped.output) = 2
       /\ \A x \in Range(deduped.input) :
              x \in Range(deduped.output)
              <=> \/ \A y \in Range(deduped.input) : The(y.published) <= The(x.published)
                  \/ \A y \in Range(deduped.input) : The(y.published) >= The(x.published)
       /\ The(deduped.output[1].published) > The(deduped.output[2].published)

\* C20 witness: three items each one second less than a day after the one
\* before, window 1, given oldest first
C20_Witness ==
    /\ deduped.op = "dedup" /\ deduped.days = 1
    /\ deduped.input = <<Day2, Day3m, Day4m>>
    /\ deduped.output = <<Day4m, Day2>>

\* C21: every input item that lacks a title or lacks a published timestamp is
\* present in the output of deduplicate_entries, for every input list and
\* window, and never causes another item to be dropped: the call returns, and
\* its output without the item is what the call gives for the input without it.
C21_UntimedAlwaysKept ==
    deduped.op = "dedup"
    => \A i \in DOMAIN deduped.input :
           ~Timed(deduped.input[i])
           => /\ ~deduped.raised
              /\ \E j \in DOMAIN deduped.output :
                     /\ deduped.output[j] = deduped.input[i]
                     /\ RemoveAt(deduped.output, j)
                        = deduplicate_entries(RemoveAt(deduped.input, i),
                                              deduped.days, deduped.time)

(***************************************************************************)
(* DataManager: tables entries and metadata                                *)
(***************************************************************************)
\* save_entry(entry, group): insert, or update the row with the same entry_id
save_entry(table, entry, t, fails) ==
    LET row == [title |-> entry.title, link |-> entry.link,
                published |-> IF entry.published = None THEN t ELSE The(entry.published),
                summary |-> IF entry.summary = None THEN "" ELSE The(entry.summary),
                filtered |-> entry.filtered,
                created_at |-> IF entry.id \in DOMAIN table
                               THEN table[entry.id].created_at ELSE t,
                updated_at |-> t]
    IN  IF fails
        THEN [table |-> table, ok |-> FALSE]
        ELSE [table |-> Put(table, entry.id, row), ok |-> TRUE]

update_last_update_time(meta, t, fails) ==
    IF fails THEN [meta |-> meta, ok |-> FALSE] ELSE [meta |-> Some(t), ok |-> TRUE]

get_last_update_time(meta) == meta

(***************************************************************************)
(* RSSProcessor.process_group, one call at a time, in its stages:          *)
(* read the configuration and the watermark; fetch the sources; dedup and  *)
(* annotate; save and move the watermark; write the feed file.             *)
(***************************************************************************)
\* the incremental filter passing an item published exactly at last_update
NewEntries_ge(feed, last_update) ==
    IF last_update = None
    THEN feed
    ELSE SelectSeq(feed, LAMBDA entry : \/ entry.published = None
                                        \/ The(entry.published) >= The(last_update))

\* the items of a source newer than last_update (all of them without one)
NewEntries(feed, last_update) ==
    IF last_update = None
    THEN feed
    ELSE SelectSeq(feed, LAMBDA entry : \/ entry.published = None
                                        \/ The(entry.published) > The(last_update))

\* a failed source emptying all_entries
fetch_join_aborts(url, r, last_update, rest) ==
    [cache |-> rest.cache,
     all_entries |-> IF r.success
                     THEN NewEntries(The(r.feed), last_update) \o rest.all_entries
                     ELSE <<>>,
     sources |-> {u \in {url} : r.success} \cup rest.sources,
     feeds |-> IF r.success THEN Put(rest.feeds, url, The(r.feed)) ELSE rest.feeds,
     live |-> {u \in {url} : r.live} \cup rest.live]

\* one source's result r followed by the result of the sources after it
fetch_join(url, r, last_update, rest) ==
    [cache |-> rest.cache,
     all_entries |-> (IF r.success THEN NewEntries(The(r.feed), last_update) ELSE <<>>)
                     \o rest.all_entries,
     sources |-> {u \in {url} : r.success} \cup rest.sources,
     feeds |-> IF r.success THEN Put(rest.feeds, url, The(r.feed)) ELSE rest.feeds,
     live |-> {u \in {url} : r.live} \cup rest.live]

\* the loop over rss_urls: the stores afterwards, all_entries, the urls that
\* gave a feed with the feed each gave, and the urls fetched over the network
RECURSIVE fetch_all(_, _, _, _, _, _, _)
RECURSIVE fetch_rest(_, _, _, _, _, _, _)
fetch_all(c, cf, urls, last_update, nets, t, env) ==
    IF urls = <<>>
    THEN [cache |-> c, all_entries |-> <<>>, sources |-> {}, feeds |-> EmptyStore,
          live |-> {}]
    ELSE fetch_rest(fetch_rss(c, cf, Head(urls), t, nets[Head(urls)], env),
                    cf, urls, last_update, nets, t, env)

fetch_rest(r, cf, urls, last_update, nets, t, env) ==
    fetch_join(Head(urls), r, last_update,
               fetch_all(r.cache, cf, Tail(urls), last_update, nets, t, env))

\* The dicts batch_process_entries marks (summary, filtered) are the ones
\* inside the feed object: the feed as seen afterwards through a reference
\* to the same object.
Marked(feed, processed) ==
    [i \in 1..Len(feed) |->
        IF \E j \in 1..Len(processed) : processed[j].id = feed[i].id
        THEN processed[CHOOSE j \in 1..Len(processed) : processed[j].id = feed[i].id]
        ELSE feed[i]]

\* MemoryCache keeps a reference to the value it was given, so the feeds this
\* run got from fetch_rss and the memory tier's entries are the same objects.
MarkedInMemory(store, cf, sources, processed) ==
    [key \in DOMAIN store |->
        IF cf.memory_enabled /\ \E url \in sources : key = FetchKey(url)
        THEN [store[key] EXCEPT !.value = Marked(@, processed)]
        ELSE store[key]]

\* one save's result r followed by the result of the saves after it
save_join(id, r, rest) ==
    [table |-> rest.table, failed |-> {i \in {id} : ~r.ok} \cup rest.failed]

\* the save loop: the table afterwards and the ids whose save failed
RECURSIVE save_all(_, _, _, _)
RECURSIVE save_rest(_, _, _, _)
save_all(table, processed, t, failing) ==
    IF processed = <<>>
    THEN [table |-> table, failed |-> {}]
    ELSE save_rest(save_entry(table, Head(processed), t, Head(processed).id \in failing),
                   processed, t, failing)

save_rest(r, processed, t, failing) ==
    save_join(Head(processed).id, r, save_all(r.table, Tail(processed), t, failing))

\* The ids this run saved.
Saved(r) == {r.processed[i].id : i \in DOMAIN r.processed} \ r.save_failed

\* The entries saved by runs whose generate_rss failed and that no feed file
\* written since has held.
Unpublished(r, success) ==
    IF success
    THEN {}
    ELSE (IF outcome = NoOp THEN {} ELSE outcome.unpublished)
         \cup (IF r.pc = "publish" THEN Saved(r) ELSE {})

\* what one call of process_group did, as it returns
Returned(r, success, cause, meta) ==
    [op |-> "run", success |-> success, cause |-> cause,
     started |-> r.started, time |-> now,
     wm_before |-> r.wm_before, wm_after |-> meta,
     last_update |-> r.last_update, sources |-> r.sources, feeds |-> r.feeds,
     all_entries |-> r.all_entries, unique |-> r.unique,
     processed |-> r.processed, save_failed |-> r.save_failed,
     table_before |-> r.table_before, table_after |-> entries_table,
     file_before |-> r.file_before,
     file_after |-> IF success THEN Some(r.processed) ELSE rss_file,
     unpublished |-> Unpublished(r, success),
     owed |-> IF outcome = NoOp THEN {} ELSE outcome.unpublished]

\* the entry ids whose save_entry fails during one run: none, one, all
SaveFaults == {{}, {"b"}, {"a", "b", "c"}}

\* what feedparser does for each source during one run
RunNets == {nets \in [Urls -> UNION {Nets(url) : url \in Urls}] :
                \A url \in Urls : nets[url] \in Nets(url) /\ nets[url].kind # "raises"}

RunStart ==
    LET r == [pc |-> "fetch", started |-> now, wm_before |-> metadata,
              last_update |-> get_last_update_time(metadata),
              sources |-> {}, feeds |-> EmptyStore, all_entries |-> <<>>,
              unique |-> <<>>, processed |-> <<>>, save_failed |-> {},
              table_before |-> entries_table, file_before |-> rss_file]
    IN  /\ run.pc = "idle"
        /\ runs < MaxRuns
        /\ runs' = runs + 1
        /\ IF config.urls = <<>>
           THEN /\ run' = Idle
                /\ outcome' = Returned(r, FALSE, "no_urls", metadata)
           ELSE /\ run' = r
                /\ UNCHANGED outcome
        /\ UNCHANGED <<now, ticks, cvars, fvars, config, avars, entries_table, metadata,
                       rss_file, xvars>>

FetchedAll(r) ==
    /\ cache' = r.cache
    /\ live_at' = [url \in DOMAIN live_at \cup r.live |->
                      IF url \in r.live THEN now ELSE live_at[url]]
    /\ IF r.all_entries = <<>>
       THEN /\ run' = Idle
            /\ outcome' = Returned([run EXCEPT !.sources = r.sources, !.feeds = r.feeds],
                                   FALSE, "no_entries", metadata)
       ELSE /\ run' = [run EXCEPT !.pc = "annotate", !.sources = r.sources,
                                  !.feeds = r.feeds, !.all_entries = r.all_entries]
            /\ UNCHANGED outcome

RunFetch(nets) ==
    /\ run.pc = "fetch"
    /\ FetchedAll(fetch_all(cache, conf, config.urls, run.last_update, nets, now, Healthy))
    /\ UNCHANGED <<now, ticks, conf, last, fetched, config, avars, entries_table,
                   metadata, rss_file, runs, xvars>>

\* all_entries after the deduplication step
Unique ==
    IF config.dedup_enabled
    THEN deduplicate_entries(run.all_entries, config.dedup_days, now)
    ELSE run.all_entries

\* the run going on to save and publish an empty processed list
Annotated_proceeds(unique, b) ==
    /\ cache' = [b.cache EXCEPT
                    !.memory = MarkedInMemory(@, conf, run.sources, b.processed)]
    /\ annotated' = [op |-> "batch", time |-> now, entries |-> unique,
                     processed |-> b.processed, notes |-> b.notes, prev |-> None]
    /\ run' = [run EXCEPT !.pc = "persist", !.unique = unique,
                          !.processed = b.processed]
    /\ UNCHANGED outcome

Annotated(unique, b) ==
    /\ cache' = [b.cache EXCEPT
                    !.memory = MarkedInMemory(@, conf, run.sources, b.processed)]
    /\ annotated' = [op |-> "batch", time |-> now, entries |-> unique,
                     processed |-> b.processed, notes |-> b.notes, prev |-> None]
    /\ IF b.processed = <<>>
       THEN /\ run' = Idle
            /\ outcome' = Returned([run EXCEPT !.unique = unique], FALSE, "none_kept",
                                   metadata)
       ELSE /\ run' = [run EXCEPT !.pc = "persist", !.unique = unique,
                                  !.processed = b.processed]
            /\ UNCHANGED outcome

RunAnnotate(llm) ==
    /\ run.pc = "annotate"
    /\ Annotated(Unique,
                 batch_process_entries(cache, conf, config, Unique, llm, now, Healthy))
    /\ UNCHANGED <<now, ticks, conf, last, fvars, config, entries_table, metadata,
                   rss_file, runs, xvars>>

Persisted(s, w) ==
    /\ entries_table' = s.table
    /\ metadata' = w.meta
    /\ run' = [run EXCEPT !.pc = "publish", !.save_failed = s.failed]

RunPersist(failing, write_fails) ==
    /\ run.pc = "persist"
    /\ Persisted(save_all(entries_table, run.processed, now, failing),
                 update_last_update_time(metadata, now, write_fails))
    /\ UNCHANGED <<now, ticks, cvars, fvars, config, avars, rss_file, runs, outcome, xvars>>

RunPublish(ok) ==
    /\ run.pc = "publish"
    /\ rss_file' = IF ok THEN Some(run.processed) ELSE rss_file
    /\ run' = Idle
    /\ outcome' = Returned(run, ok, IF ok THEN "done" ELSE "generate_rss", metadata)
    /\ UNCHANGED <<now, ticks, cvars, fvars, config, avars, entries_table, metadata, runs, xvars>>

\* the configurations a run is tried under: everything on, annotation
\* switched off, the API key missing, each with and without deduplication,
\* and a group without urls
RunConfigs ==
    {[base EXCEPT !.dedup_enabled = dedup] :
        base \in {AllOn,
                  [AllOn EXCEPT !.filter_enabled = FALSE, !.summary_enabled = FALSE],
                  [AllOn EXCEPT !.api_key = FALSE]},
        dedup \in BOOLEAN}
    \cup {[AllOn EXCEPT !.urls = <<>>]}

InitGroup ==
    /\ InitCache({AllTiers}) /\ InitFetch /\ config \in RunConfigs
    /\ InitAnnotate /\ InitRun

NextRun ==
    \/ Tick
    \/ RunStart
    \/ \E nets \in RunNets : RunFetch(nets)
    \/ \E llm \in Llms : RunAnnotate(llm)
    \/ \E failing \in SaveFaults, write_fails \in BOOLEAN :
           RunPersist(failing, write_fails)
    \/ \E ok \in BOOLEAN : RunPublish(ok)

SpecRun == InitGroup /\ [][NextRun]_vars

\* Runs whose saves and watermark write succeed, with a provider that answers:
\* what the stages pass on to one another.
IngestLlms == {llm \in Llms : llm.kind = "ok" /\ llm.summary = SummaryText}

\* between two runs: two seconds, or more than a fetched feed stays cached
IngestDurations == {2, fetch_ttl + 1}

NextIngest ==
    \/ run.pc = "idle" /\ Wait(IngestDurations)
    \/ RunStart
    \/ \E nets \in RunNets : RunFetch(nets)
    \/ \E llm \in IngestLlms : RunAnnotate(llm)
    \/ RunPersist({}, FALSE)
    \/ \E ok \in BOOLEAN : RunPublish(ok)

InitIngest ==
    /\ InitCache({AllTiers}) /\ InitFetch
    /\ config \in {AllOn, [AllOn EXCEPT !.dedup_enabled = FALSE]}
    /\ InitAnnotate /\ InitRun

SpecIngest == InitIngest /\ [][NextIngest]_vars

(***************************************************************************)
(* Properties of a run                                                     *)
(***************************************************************************)
\* C1: a process_group call that fails (no source gave items, nothing
\* survived annotation, or the feed file could not be written) leaves the
\* group's watermark as it was when the call began.
C1_FailedRunKeepsWatermark ==
    (outcome.op = "run" /\ ~outcome.success)
    => outcome.wm_after = outcome.wm_before

\* C7: when saving a surviving item fails, the run fails and the watermark
\* is not moved.
C7_SaveFailureFailsRun ==
    (outcome.op = "run" /\ outcome.save_failed # {})
    => /\ ~outcome.success
       /\ outcome.wm_after = outcome.wm_before

\* the items the sources of the returned run gave, before any stage
FetchedItems == UNION {Range(outcome.feeds[url]) : url \in DOMAIN outcome.feeds}

\* published at or before the watermark w
Old(entry, w) == entry.published # None /\ The(entry.published) <= The(w)

\* the ids whose rows the returned run wrote
RowsWritten ==
    {id \in DOMAIN outcome.table_after :
        \/ id \notin DOMAIN outcome.table_before
        \/ outcome.table_after[id] # outcome.table_before[id]}

\* C22: when a watermark W exists for the group, the incremental stage of
\* process_group passes on exactly the fetched items whose published time is
\* strictly later than W plus all items without a parsable published time; no
\* item with published time at or before W reaches dedup, annotation,
\* persistence or publication in that run.
C22_IncrementalPassesNewOnly ==
    (outcome.op = "run" /\ outcome.last_update # None)
    => /\ Range(outcome.all_entries) =
              {x \in FetchedItems : ~Old(x, outcome.last_update)}
       /\ \A x \in Range(outcome.unique) \cup Range(outcome.processed) :
              ~Old(x, outcome.last_update)
       /\ \A id \in RowsWritten :
              \E x \in Range(outcome.processed) :
                  x.id = id /\ ~Old(x, outcome.last_update)
       /\ outcome.file_after # outcome.file_before
          => \A x \in Range(The(outcome.file_after)) : ~Old(x, outcome.last_update)

\* C22 witness: a run that read a watermark and was given an item published
\* exactly then, which it left out, and an item without a published time,
\* which it saved and published
C22_Witness ==
    /\ outcome.op = "run" /\ outcome.last_update # None /\ outcome.success
    /\ \E x \in FetchedItems :
           /\ x.published = outcome.last_update
           /\ x \notin Range(outcome.all_entries)
    /\ \E x \in Range(outcome.processed) :
           /\ x.published = None
           /\ x.id \in RowsWritten
           /\ x \in Range(The(outcome.file_after))

\* C23: when the set of items surviving incremental filtering, dedup and
\* annotation is empty, process_group reports failure, persists nothing,
\* publishes nothing and leaves the watermark unchanged.
C23_EmptyRunFailsClean ==
    (outcome.op = "run" /\ outcome.processed = <<>>)
    => /\ ~outcome.success
       /\ outcome.table_after = outcome.table_before
       /\ outcome.file_after = outcome.file_before
       /\ outcome.wm_after = outcome.wm_before

\* C23 witness: after a run that saved and published, a run whose items were
\* all dropped by the filter returned failure with the table, the feed file
\* and the watermark as they were
C23_Witness ==
    /\ outcome.op = "run" /\ ~outcome.success
    /\ outcome.all_entries # <<>> /\ outcome.processed = <<>>
    /\ outcome.wm_before # None /\ outcome.wm_after = outcome.wm_before
    /\ outcome.file_before # None /\ outcome.file_after = outcome.file_before
    /\ DOMAIN outcome.table_before # {}
    /\ outcome.table_after = outcome.table_before

\* C24: in process_group a source whose fetch fails is skipped without
\* aborting the run, items of every successfully fetched source still reach
\* the later stages, and the run is failed on account of fetching only when
\* zero sources were fetched successfully (a run that stops after the fetch
\* loop with a source fetched has no new item in any fetched source).
C24_FailedSourceSkipped ==
    outcome.op = "run"
    => /\ \A url \in outcome.sources :
              Range(NewEntries(outcome.feeds[url], outcome.last_update))
              \subseteq Range(outcome.all_entries)
       /\ outcome.cause = "no_entries"
          => \/ outcome.sources = {}
             \/ /\ outcome.last_update # None
                /\ \A x \in FetchedItems : Old(x, outcome.last_update)
       /\ (outcome.sources = {} /\ outcome.cause # "no_urls")
          => ~outcome.success /\ outcome.cause = "no_entries"

\* C24 witness: a run in which one source failed and the other was fetched
\* went on to save and publish the fetched source's item
C24_Witness ==
    /\ outcome.op = "run" /\ outcome.success
    /\ outcome.sources = {"u2"}
    /\ Len(config.urls) = 2
    /\ Range(outcome.feeds["u2"]) \subseteq Range(The(outcome.file_after))
    /\ "b" \in RowsWritten

\* C29: after a successful run of process_group, the group's watermark equals
\* the time at which that run started.
C29_WatermarkIsRunStart ==
    (outcome.op = "run" /\ outcome.success)
    => outcome.wm_after = Some(outcome.started)

\* C30: renderer failure does not undo persistence and publication can be
\* retried independently of re-ingestion: after a run whose generate_rss
\* failed, the entries that run persisted are still in EntryStore and are
\* contained in the document produced by the next successful publish for
\* that group, without having to be fetched again as new items.
C30_FailedPublishIsMadeUp ==
    outcome.op = "run"
    => /\ outcome.unpublished \cup outcome.owed \subseteq DOMAIN outcome.table_after
       /\ outcome.success
          => outcome.owed \subseteq {x.id : x \in Range(The(outcome.file_after))}

(***************************************************************************)
(* Overlapping requests. The server handles each request in a thread of    *)
(* its own, so two /update requests for the group run process_group at the *)
(* same time. A thread's call is followed from one point where it reads or *)
(* writes what the threads share (the cache, table entries, table          *)
(* metadata, the feed file) to the next; here the group filters and does   *)
(* not summarise, and each call has one item to process.                   *)
(***************************************************************************)
MaxStarts == 3

\* between two steps of the threads: two seconds
OverlapDurations == {2}

OverlapConfig == [AllOn EXCEPT !.summary_enabled = FALSE]

\* a call at batch_process_entries with its item; llm: what the provider
\* answers this call if it is asked
Started(entry, llm) ==
    [pc |-> "filter", entry |-> entry, llm |-> llm, at |-> 0, seen |-> FALSE,
     stamp |-> 0, wrote |-> FALSE, row_before |-> None, row_after |-> None]

Move(w, rec) == threads' = [threads EXCEPT ![w] = rec]

\* filter_entry has returned keep: a rejected item leaves the call with
\* nothing to save and it returns; a kept one is marked and goes on to be saved
Filtered(w, keep) ==
    Move(w, IF keep
            THEN [threads[w] EXCEPT !.pc = "select", !.entry.filtered = TRUE]
            ELSE Idle)

\* process_group up to batch_process_entries, with an item that the
\* incremental filter lets through
ThreadStart(w, entry, llm) ==
    /\ threads[w].pc = "idle"
    /\ runs < MaxStarts
    /\ NewEntries(<<entry>>, get_last_update_time(metadata)) = <<entry>>
    /\ runs' = runs + 1
    /\ Move(w, Started(entry, llm))
    /\ UNCHANGED <<now, ticks, cvars, fvars, config, svars, avars, entries_table, metadata,
                   rss_file, run, outcome, before, shadow, deduped, asked>>

\* filter_entry: the lookup of the cached verdict
ThreadFilterLookup(w) ==
    LET entry == threads[w].entry
        g == CacheManager_get(cache, conf, FilterKey(entry), None, now, Healthy)
    IN  /\ threads[w].pc = "filter"
        /\ cache' = g.cache
        /\ IF g.value # None
           THEN Filtered(w, The(g.value))
           ELSE Move(w, [threads[w] EXCEPT !.pc = "text"])
        /\ UNCHANGED <<now, ticks, conf, last, fvars, config, svars, avars, rvars,
                       before, shadow, deduped, asked>>

\* generate_text: the lookup of the cached reply; on a miss the request goes
\* out to the provider
ThreadTextLookup(w) ==
    LET entry == threads[w].entry
        prompt == Prompt("filter", entry)
        g == CacheManager_get(cache, conf, LlmKey(prompt), None, now, Healthy)
        f == filter_entry_parse(
                 generate_text_call(g, conf, prompt, threads[w].llm.verdict,
                                    threads[w].llm, now, Healthy),
                 conf, entry, now, Healthy)
    IN  /\ threads[w].pc = "text"
        /\ IF g.value # None
           THEN /\ cache' = f.cache
                /\ Filtered(w, f.keep)
                /\ UNCHANGED asked
           ELSE /\ cache' = g.cache
                /\ Move(w, [threads[w] EXCEPT !.pc = "reply"])
                /\ asked' = [id \in DOMAIN asked \cup {entry.id} |->
                                IF id = entry.id
                                THEN (IF id \in DOMAIN asked THEN asked[id] ELSE 0) + 1
                                ELSE asked[id]]
        /\ UNCHANGED <<now, ticks, conf, last, fvars, config, svars, avars, rvars,
                       before, shadow, deduped>>

\* the provider has answered: generate_text caches the reply, filter_entry
\* caches the verdict
ThreadTextReply(w) ==
    LET entry == threads[w].entry
        f == filter_entry_parse(
                 generate_text_call([cache |-> cache, value |-> None], conf,
                                    Prompt("filter", entry), threads[w].llm.verdict,
                                    threads[w].llm, now, Healthy),
                 conf, entry, now, Healthy)
    IN  /\ threads[w].pc = "reply"
        /\ cache' = f.cache
        /\ Filtered(w, f.keep)
        /\ UNCHANGED <<now, ticks, conf, last, fvars, config, svars, avars, rvars,
                       before, shadow, deduped, asked>>

\* save_entry: now is read, then the SELECT
ThreadSaveSelect(w) ==
    /\ threads[w].pc = "select"
    /\ Move(w, [threads[w] EXCEPT !.pc = "write", !.at = now,
                                  !.seen = threads[w].entry.id \in DOMAIN entries_table])
    /\ UNCHANGED <<now, ticks, cvars, fvars, config, svars, avars, rvars,
                   before, shadow, deduped, asked>>

\* save_entry: the UPDATE, or the INSERT, which UNIQUE(entry_id, group_name)
\* refuses when the row has appeared since the SELECT
ThreadSaveWrite(w) ==
    LET entry == threads[w].entry
        held == entry.id \in DOMAIN entries_table
        s == save_entry(entries_table, entry, threads[w].at, ~threads[w].seen /\ held)
    IN  /\ threads[w].pc = "write"
        /\ entries_table' = s.table
        /\ Move(w, [threads[w] EXCEPT
                        !.pc = "stamp", !.wrote = s.ok,
                        !.row_before = IF held THEN Some(entries_table[entry.id]) ELSE None,
                        !.row_after = Some(s.table[entry.id])])
        /\ UNCHANGED <<now, ticks, cvars, fvars, config, svars, avars, metadata, rss_file,
                       run, runs, outcome, before, shadow, deduped, asked>>

\* update_last_update_time: now is read, then the SELECT
ThreadMarkSelect(w) ==
    /\ threads[w].pc = "stamp"
    /\ Move(w, [threads[w] EXCEPT !.pc = "mark", !.stamp = now,
                                  !.seen = metadata # None])
    /\ UNCHANGED <<now, ticks, cvars, fvars, config, svars, avars, rvars,
                   before, shadow, deduped, asked>>

\* update_last_update_time: the UPDATE, or the INSERT, which
\* UNIQUE(group_name) refuses when the row has appeared since the SELECT
ThreadMarkWrite(w) ==
    /\ threads[w].pc = "mark"
    /\ metadata' = update_last_update_time(metadata, threads[w].stamp,
                                           ~threads[w].seen /\ metadata # None).meta
    /\ Move(w, [threads[w] EXCEPT !.pc = "publish"])
    /\ UNCHANGED <<now, ticks, cvars, fvars, config, svars, avars, entries_table, rss_file,
                   run, runs, outcome, before, shadow, deduped, asked>>

\* generate_rss writes the feed file and process_group returns
ThreadPublish(w) ==
    /\ threads[w].pc = "publish"
    /\ rss_file' = Some(<<threads[w].entry>>)
    /\ Move(w, Idle)
    /\ UNCHANGED <<now, ticks, cvars, fvars, config, svars, avars, entries_table, metadata,
                   run, runs, outcome, before, shadow, deduped, asked>>

InitOverlap ==
    /\ InitCache({AllTiers}) /\ InitFetch /\ config = OverlapConfig
    /\ InitAnnotate /\ InitRun

NextOverlap ==
    \/ Wait(OverlapDurations)
    \/ \E w \in Threads, entry \in {ItemA, ItemC}, llm \in IngestLlms :
           ThreadStart(w, entry, llm)
    \/ \E w \in Threads : ThreadFilterLookup(w)
    \/ \E w \in Threads : ThreadTextLookup(w)
    \/ \E w \in Threads : ThreadTextReply(w)
    \/ \E w \in Threads : ThreadSaveSelect(w)
    \/ \E w \in Threads : ThreadSaveWrite(w)
    \/ \E w \in Threads : ThreadMarkSelect(w)
    \/ \E w \in Threads : ThreadMarkWrite(w)
    \/ \E w \in Threads : ThreadPublish(w)

SpecOverlap == InitOverlap /\ [][NextOverlap]_vars

\* C26: at most one external text-generation call per capability is issued
\* for a distinct item within the cache TTL however the group is reprocessed,
\* overlapping runs that annotate the same item concurrently included.
C26_OneCallPerItem ==
    now < memory_ttl => \A id \in DOMAIN asked : asked[id] <= 1

\* what a row holds, its modification stamp aside
Content(row) ==
    [title |-> row.title, link |-> row.link, published |-> row.published,
     summary |-> row.summary, filtered |-> row.filtered, created_at |-> row.created_at]

\* C27: a save of an already stored (entry_id, group) pair updates its row,
\* and saving the same entry again leaves the stored fields as the first save
\* left them, whichever way the saves of overlapping runs interleave.
C27_SaveTwiceIsSaveOnce ==
    \A w \in Threads :
        (threads[w].pc \in {"stamp", "mark", "publish"} /\ threads[w].row_before # None)
        => /\ threads[w].entry.id \in DOMAIN entries_table
           /\ Content(The(threads[w].row_after)) = Content(The(threads[w].row_before))

\* C28: the group's watermark never decreases, over any sequence of runs,
\* overlapping runs included.
C28_WatermarkMonotone ==
    [][metadata # None
       => (metadata' # None /\ The(metadata') >= The(metadata))]_metadata

(***************************************************************************)
(* SchedulerManager: add_job, remove_job and update_job called from        *)
(* several threads. self.lock is a threading.Lock, which is not reentrant: *)
(* a thread that asks for it while holding it waits for ever. A call is    *)
(* followed from the lock to the scheduler to the jobs registry.           *)
(***************************************************************************)
MaxCalls == 3

\* the groups config.yaml defines, and a name it does not define
SchedGroups == {"g"}
CallGroups == {"g", "x"}

\* the interval arguments: absent, not a positive integer, thirty minutes
Intervals == {None, Some(0), Some(30)}

JobId(group_name) == "rss_job_" \o group_name

\* the interval add_job ends up with
Minutes(interval) ==
    IF interval = None THEN 60
    ELSE IF The(interval) <= 0 THEN 60
    ELSE The(interval)

\* the timers the scheduler holds under a job id
Timers(id) == {timer \in scheduler : timer.id = id}

\* scheduler.add_job(..., id=job_id, replace_existing=True)
scheduler_add_job(id, minutes) ==
    (scheduler \ Timers(id)) \cup {[id |-> id, minutes |-> minutes]}

\* the scheduler keeping the timer it was asked to remove
scheduler_remove_job_keeps(id) == scheduler

\* scheduler.remove_job(job_id)
scheduler_remove_job(id) == scheduler \ Timers(id)

At(t, pc) == callers' = [callers EXCEPT ![t] = [@ EXCEPT !.pc = pc]]

Return(t) == callers' = [callers EXCEPT ![t] = Idle]

\* a thread calls add_job, remove_job or update_job
Call(t, op, group_name, interval) ==
    /\ callers[t].pc = "idle"
    /\ calls < MaxCalls
    /\ calls' = calls + 1
    /\ callers' = [callers EXCEPT ![t] =
                      [pc |-> IF op = "add" THEN "add_lock" ELSE "remove_lock",
                       op |-> op, group_name |-> group_name, interval |-> interval]]
    /\ UNCHANGED <<now, ticks, cvars, fvars, config, avars, rvars,
                   before, shadow, deduped, tvars, lock, jobs, scheduler>>

\* add_job: with self.lock
AddAcquire(t) ==
    /\ callers[t].pc = "add_lock"
    /\ lock = None
    /\ lock' = Some(t)
    /\ At(t, "add_check")
    /\ UNCHANGED <<now, ticks, cvars, fvars, config, avars, rvars,
                   before, shadow, deduped, tvars, jobs, scheduler, calls>>

\* add_job: an unknown group returns False; a registered one goes to
\* self.remove_job, still inside the with block
AddCheck(t) ==
    /\ callers[t].pc = "add_check"
    /\ IF callers[t].group_name \notin SchedGroups
       THEN lock' = None /\ Return(t)
       ELSE IF JobId(callers[t].group_name) \in DOMAIN jobs
       THEN At(t, "remove_lock") /\ UNCHANGED lock
       ELSE At(t, "add_schedule") /\ UNCHANGED lock
    /\ UNCHANGED <<now, ticks, cvars, fvars, config, avars, rvars,
                   before, shadow, deduped, tvars, jobs, scheduler, calls>>

\* add_job: self.scheduler.add_job
AddSchedule(t) ==
    /\ callers[t].pc = "add_schedule"
    /\ scheduler' = scheduler_add_job(JobId(callers[t].group_name),
                                      Minutes(callers[t].interval))
    /\ At(t, "add_record")
    /\ UNCHANGED <<now, ticks, cvars, fvars, config, avars, rvars,
                   before, shadow, deduped, tvars, lock, jobs, calls>>

\* add_job: self.jobs[job_id] = group_name, the lock released, True returned
AddRecord(t) ==
    /\ callers[t].pc = "add_record"
    /\ jobs' = Put(jobs, JobId(callers[t].group_name), callers[t].group_name)
    /\ lock' = None
    /\ Return(t)
    /\ UNCHANGED <<now, ticks, cvars, fvars, config, avars, rvars,
                   before, shadow, deduped, tvars, scheduler, calls>>

\* remove_job: with self.lock
RemoveAcquire(t) ==
    /\ callers[t].pc = "remove_lock"
    /\ lock = None
    /\ lock' = Some(t)
    /\ At(t, "remove_check")
    /\ UNCHANGED <<now, ticks, cvars, fvars, config, avars, rvars,
                   before, shadow, deduped, tvars, jobs, scheduler, calls>>

\* remove_job has returned or raised: remove_job itself returns, update_job
\* goes on to add_job unless the exception leaves it
Removed(t, raised) ==
    IF callers[t].op = "update" /\ ~raised THEN At(t, "add_lock") ELSE Return(t)

\* remove_job: an unregistered group returns False; else
\* self.scheduler.remove_job, which raises when it holds no such job
RemoveCheck(t) ==
    LET id == JobId(callers[t].group_name)
    IN  /\ callers[t].pc = "remove_check"
        /\ IF id \notin DOMAIN jobs
           THEN lock' = None /\ Removed(t, FALSE) /\ UNCHANGED scheduler
           ELSE IF Timers(id) = {}
           THEN lock' = None /\ Removed(t, TRUE) /\ UNCHANGED scheduler
           ELSE /\ scheduler' = scheduler_remove_job(id)
                /\ At(t, "remove_del")
                /\ UNCHANGED lock
        /\ UNCHANGED <<now, ticks, cvars, fvars, config, avars, rvars,
                       before, shadow, deduped, tvars, jobs, calls>>

\* remove_job: del self.jobs[job_id], the lock released, True returned
RemoveDel(t) ==
    /\ callers[t].pc = "remove_del"
    /\ jobs' = Remove(jobs, JobId(callers[t].group_name))
    /\ lock' = None
    /\ Removed(t, FALSE)
    /\ UNCHANGED <<now, ticks, cvars, fvars, config, avars, rvars,
                   before, shadow, deduped, tvars, scheduler, calls>>

\* the steps thread t takes inside a call it has made
Proceed(t) ==
    \/ AddAcquire(t)
    \/ AddCheck(t)
    \/ AddSchedule(t)
    \/ AddRecord(t)
    \/ RemoveAcquire(t)
    \/ RemoveCheck(t)
    \/ RemoveDel(t)

InitSched ==
    /\ InitCache({AllTiers}) /\ InitFetch /\ config = AllOn
    /\ InitAnnotate /\ InitRun

NextSched ==
    \/ \E t \in Threads, op \in {"add", "remove", "update"},
          group_name \in CallGroups, interval \in Intervals :
           Call(t, op, group_name, interval)
    \/ \E t \in Threads : AddAcquire(t)
    \/ \E t \in Threads : AddCheck(t)
    \/ \E t \in Threads : AddSchedule(t)
    \/ \E t \in Threads : AddRecord(t)
    \/ \E t \in Threads : RemoveAcquire(t)
    \/ \E t \in Threads : RemoveCheck(t)
    \/ \E t \in Threads : RemoveDel(t)

SpecSched == InitSched /\ [][NextSched]_vars

\* every thread that can take a step infinitely often takes one: a thread
\* waiting for the lock gets it if it is free again and again
SpecSchedFair == SpecSched /\ \A t \in Threads : SF_vars(Proceed(t))

\* no thread is between its scheduler operation and its registry write
Settled == \A t \in Threads : callers[t].pc \notin {"add_record", "remove_del"}

\* C31: under any interleaving of add_job, remove_job and update_job calls
\* from several threads, each group has at most one timer in the scheduler,
\* and (no call being between its scheduler operation and its registry
\* write, both made under the lock) the jobs registry contains a group's job
\* id exactly when the scheduler holds a timer for that group.
C31_RegistryMatchesTimers ==
    \A group_name \in CallGroups :
        /\ Cardinality(Timers(JobId(group_name))) <= 1
        /\ Settled => (JobId(group_name) \in DOMAIN jobs
                       <=> Timers(JobId(group_name)) # {})

\* both threads have completed a call that changed the registration, and the
\* group is registered with the interval of the later one
C31_Witness ==
    /\ calls = MaxCalls
    /\ \A t \in Threads : callers[t].pc = "idle"
    /\ lock = None
    /\ JobId("g") \in DOMAIN jobs
    /\ Timers(JobId("g")) = {[id |-> JobId("g"), minutes |-> 30]}

\* C32: every call of add_job, remove_job and update_job returns: no call
\* blocks for ever on the registry lock.
C32_EveryCallReturns ==
    \A t \in Threads : (callers[t].pc # "idle") ~> (callers[t].pc = "idle")

(***************************************************************************)
(* Runs of a group whose source publishes an item while a run is under     *)
(* way: the source's document holds, whenever it is fetched, the items     *)
(* published by then. The group does not filter or summarise.              *)
(***************************************************************************)
ItemZ == [id |-> "z", title |-> "Z", link |-> "lz", published |-> Some(0),
          summary |-> None, filtered |-> FALSE]
ItemL == [id |-> "l", title |-> "L", link |-> "ll", published |-> Some(1),
          summary |-> None, filtered |-> FALSE]

\* the document of source u1 at time t
LateDoc(t) == IF t >= 1 THEN <<ItemL, ItemZ>> ELSE <<ItemZ>>

\* what feedparser gets from the sources at time t
LateNets(t) == [url \in Urls |-> [kind |-> "ok", feed |-> LateDoc(t)]]

LateConfigs ==
    {[AllOn EXCEPT !.urls = <<"u1">>, !.filter_enabled = FALSE,
                   !.summary_enabled = FALSE, !.dedup_enabled = dedup] :
        dedup \in BOOLEAN}

InitLate ==
    /\ InitCache(Confs) /\ InitFetch /\ config \in LateConfigs
    /\ InitAnnotate /\ InitRun

\* time passes between the runs and between the stages of a run
NextLate ==
    \/ WaitUpTo(IngestDurations, MaxTicks + 1)
    \/ RunStart
    \/ RunFetch(LateNets(now))
    \/ \E llm \in IngestLlms : RunAnnotate(llm)
    \/ RunPersist({}, FALSE)
    \/ RunPublish(TRUE)

SpecLate == InitLate /\ [][NextLate]_vars

\* the run's state once its fetch stage is over: the run going on, or the
\* run having returned for want of entries
AfterFetch == IF run'.pc = "annotate" THEN run' ELSE outcome'

\* C33: no new source item is skipped for ever: in sequential runs of one
\* group, an item published after the source was last fetched and not later
\* than the watermark a successful run then wrote is passed by the
\* incremental filter of the later run that finds it in the fetched feed.
C33_LateItemStillPassed ==
    [][(run.pc = "fetch" /\ run'.pc # "fetch" /\ run.last_update # None)
       => \A url \in DOMAIN AfterFetch.feeds \cap DOMAIN live_at :
              \A i \in DOMAIN AfterFetch.feeds[url] :
                  LET item == AfterFetch.feeds[url][i]
                  IN  (/\ item.published # None
                       /\ live_at[url] < The(item.published)
                       /\ The(item.published) <= The(run.last_update))
                      => \E j \in DOMAIN AfterFetch.all_entries :
                             AfterFetch.all_entries[j].id = item.id]_vars

(***************************************************************************)
(* Runs of a group whose source carries items without an id: save_entry    *)
(* reads entry.get('id', ''), so the id of such an item is "".  The memory *)
(* tier is off, the feed being followed by the ids of its items there.     *)
(***************************************************************************)
ItemN1 == [id |-> "", title |-> "N1", link |-> "l1", published |-> Some(2),
           summary |-> None, filtered |-> FALSE]
ItemN2 == [id |-> "", title |-> "N2", link |-> "l2", published |-> Some(3),
           summary |-> None, filtered |-> FALSE]

NoIdDocs == {<<ItemN1>>, <<ItemN1, ItemN2>>, <<ItemA, ItemN2>>}

NoIdNets == {[url \in Urls |-> [kind |-> "ok", feed |-> doc]] : doc \in NoIdDocs}

InitNoId ==
    /\ InitCache({cf \in Confs : ~cf.memory_enabled}) /\ InitFetch
    /\ config \in LateConfigs
    /\ InitAnnotate /\ InitRun

NextNoId ==
    \/ run.pc = "idle" /\ Wait(IngestDurations)
    \/ RunStart
    \/ \E nets \in NoIdNets : RunFetch(nets)
    \/ \E llm \in IngestLlms : RunAnnotate(llm)
    \/ RunPersist({}, FALSE)
    \/ RunPublish(TRUE)

SpecNoId == InitNoId /\ [][NextNoId]_vars

\* C34: after a run of process_group that reaches persistence, every
\* surviving item of that run can be retrieved from EntryStore under its own
\* (id, group) with its own title and link, items whose feed entry carries no
\* id included.
C34_SurvivorsRetrievable ==
    (outcome.op = "run" /\ outcome.processed # <<>>)
    => \A i \in DOMAIN outcome.processed :
           LET item == outcome.processed[i]
           IN  /\ item.id \in DOMAIN outcome.table_after
               /\ outcome.table_after[item.id].title = item.title
               /\ outcome.table_after[item.id].link = item.link

\* the items of the document the returned run wrote
Document == The(outcome.file_after)

\* C36: the document written by a successful run of process_group contains
\* exactly the items that survived that run, one document entry per
\* surviving item and nothing from earlier runs, and these are the items the
\* run persisted: each has its row in EntryStore.
C36_DocumentIsTheSurvivors ==
    (outcome.op = "run" /\ outcome.success)
    => /\ outcome.file_after # None
       /\ Len(Document) = Len(outcome.processed)
       /\ \A i \in DOMAIN Document :
              /\ Document[i].title = outcome.processed[i].title
              /\ Document[i].link = outcome.processed[i].link
              /\ \E id \in DOMAIN outcome.table_after :
                     /\ outcome.table_after[id].title = Document[i].title
                     /\ outcome.table_after[id].link = Document[i].link

\* some tier's store has an entry under the key
Stored(key) == \E tier \in Tiers : key \in DOMAIN cache[tier]

\* C35: a failed external text-generation call (non-200 response, transport
\* error, missing API key) stores nothing in any cache tier under the llm:,
\* filter: or summary: key of that item, so that annotating the item again
\* issues the call again.
C35_FailureNotCached ==
    annotated.op = "batch"
    => \A i \in DOMAIN annotated.entries, note \in Notes :
           LET entry == annotated.entries[i]
           IN  note.id = entry.id
               => /\ note.filter_failed
                     => /\ ~Stored(FilterKey(entry))
                        /\ ~Stored(LlmKey(Prompt("filter", entry)))
                  /\ note.summary_failed
                     => /\ ~Stored(SummaryKey(entry))
                        /\ ~Stored(LlmKey(Prompt("summary", entry)))

(***************************************************************************)
(* The tiers holding different values for a key: set with cache_type       *)
(* writes one tier, and the tiers' entries age at their own TTLs.          *)
(***************************************************************************)
OrderDurations == {memory_ttl + 1, file_ttl + 1}

AnyType == {None} \cup CacheTypes

InitOrder ==
    /\ InitCache(Confs) /\ InitFetch /\ config = AllOn /\ InitAnnotate /\ InitRun

NextOrder ==
    \/ Wait(OrderDurations)
    \/ \E key \in TierKeys, cache_type \in AnyType : GetSeen(key, cache_type, Healthy)
    \/ \E key \in TierKeys, value \in Values, cache_type \in AnyType :
           SetSeen(key, value, None, cache_type, Healthy)

SpecOrder == InitOrder /\ [][NextOrder]_vars

\* the tiers that, just before the last call, had a readable unexpired entry
\* for the key
Fresh(key) ==
    {tier \in Tiers : TierGet(before.cache, conf, key, tier, before.time) # None}

\* the fastest of a set of tiers
Fastest(tiers) ==
    IF "memory" \in tiers THEN "memory" ELSE IF "file" \in tiers THEN "file" ELSE "db"

\* C37: get without cache_type returns the value held by the fastest enabled
\* tier (order memory, file, db) that has an unexpired entry for the key,
\* whatever value the slower tiers hold for that key; it returns nothing
\* when no enabled tier has one.
C37_FastestTierAnswers ==
    (last.op = "get" /\ last.cache_type = None)
    => IF Fresh(last.key) = {}
       THEN last.value = None
       ELSE /\ last.hit = Fastest(Fresh(last.key))
            /\ last.value = TierGet(before.cache, conf, last.key,
                                    Fastest(Fresh(last.key)), before.time)

\* the file tier answered a get while the db tier held another unexpired
\* value, the memory tier enabled but without a live entry
C37_Witness ==
    /\ last.op = "get" /\ last.cache_type = None
    /\ conf = AllTiers
    /\ Fresh(last.key) = {"file", "db"}
    /\ last.hit = "file"
    /\ TierGet(before.cache, conf, last.key, "db", before.time) # last.value

(***************************************************************************)
(* One set with the default TTLs, then only gets and the passing of time.  *)
(***************************************************************************)
LifeDurations == {1, memory_ttl, file_ttl, db_ttl}

\* the one set(key, value) of the key's life
SetOnce ==
    /\ last.op = "none"
    /\ \E key \in Keys, value \in Values : SetSeen(key, value, None, None, Healthy)

InitLife ==
    /\ InitCache(Confs) /\ InitFetch /\ config = AllOn /\ InitAnnotate /\ InitRun

NextLife ==
    \/ WaitUpTo(LifeDurations, MaxTicks + 3)
    \/ SetOnce
    \/ /\ last.op # "none"
       /\ \E key \in Keys, cache_type \in AnyType : Get(key, cache_type, Healthy)

SpecLife == InitLife /\ [][NextLife]_vars

\* time elapsed at the last call since the set
SinceSet == last.time - before.time

\* C38: a value written by one set with the default TTLs and never written
\* again is not returned by a get later than memory_ttl + file_ttl + db_ttl
\* after the set, whatever gets came in between.
C38_LifetimeBounded ==
    (last.op = "get" /\ last.value # None)
    => SinceSet <= memory_ttl + file_ttl + db_ttl

\* a get still answered after db_ttl + file_ttl: the db entry was promoted to
\* the file tier, the file entry to memory
C38_Witness ==
    /\ last.op = "get" /\ last.value # None
    /\ SinceSet > db_ttl + file_ttl

(***************************************************************************)
(* Two threads in CacheManager.set at the same time.  set holds no lock:   *)
(* its writes to memory, file and db are separate steps, and the other     *)
(* thread's writes can come between them.                                  *)
(***************************************************************************)
\* the tier set writes after tier
NextTier(tier) == IF tier = "memory" THEN "file" ELSE IF tier = "file" THEN "db" ELSE "returned"

\* a thread enters set(key, value) with the default TTLs
SetBegin(w) ==
    /\ threads[w].pc = "idle"
    /\ \E key \in Keys, value \in Values :
           threads' = [threads EXCEPT ![w] = [pc |-> "memory", key |-> key,
                                              value |-> value, success |-> TRUE]]
    /\ UNCHANGED <<now, ticks, cvars, fvars, config, svars, avars, rvars,
                   before, shadow, deduped, asked>>

\* the thread's write to one tier (skipped when the tier is off); set returns
\* success after the db tier
SetTier(w) ==
    LET th == threads[w]
        on == th.pc \in Enabled(conf)
        r == TierWrite(th.pc, on, cache, th.key, th.value, None, now, Healthy)
    IN  /\ th.pc \in Tiers
        /\ cache' = [cache EXCEPT ![th.pc] = r.store]
        /\ threads' = [threads EXCEPT ![w] = [th EXCEPT !.pc = NextTier(th.pc),
                                              !.success = th.success /\ (on => r.ok)]]
        /\ UNCHANGED <<now, ticks, conf, last, fvars, config, svars, avars, rvars,
                       before, shadow, deduped, asked>>

InitRace ==
    /\ InitCache(Confs) /\ InitFetch /\ config = AllOn /\ InitAnnotate /\ InitRun

NextRace ==
    \/ Wait({1})
    \/ \E w \in Threads : SetBegin(w)
    \/ \E w \in Threads : SetTier(w)

SpecRace == InitRace /\ [][NextRace]_vars

\* both threads' set calls have returned True, for the same key and with
\* different values
BothSet ==
    /\ \A w \in Threads : threads[w].pc = "returned" /\ threads[w].success
    /\ threads[1].key = threads[2].key
    /\ threads[1].value # threads[2].value

\* C39: after two concurrent set calls on the same key with different values
\* have both completed successfully, every enabled tier holds the same value
\* for the key.
C39_ConcurrentSetsAgree ==
    BothSet
    => \A a, b \in Enabled(conf) :
           TierGet(cache, conf, threads[1].key, a, now)
               = TierGet(cache, conf, threads[1].key, b, now)

(***************************************************************************)
(* cleanup: every tier drops its expired entries and counts them           *)
(***************************************************************************)
\* a cleanup that also drops the entries whose age equals the TTL
DatabaseCache_cleanup_early(store, self_ttl, t) ==
    LET expired == {key \in DOMAIN store : store[key].created_at <= t - self_ttl}
    IN  [store |-> [key \in DOMAIN store \ expired |-> store[key]],
         count |-> Cardinality(expired)]

\* DELETE FROM cache WHERE created_at < cutoff, the cutoff being now - ttl
DatabaseCache_cleanup(store, self_ttl, t) ==
    LET expired == {key \in DOMAIN store : store[key].created_at < t - self_ttl}
    IN  [store |-> [key \in DOMAIN store \ expired |-> store[key]],
         count |-> Cardinality(expired)]

MemoryCache_cleanup(store, t) ==
    LET expired_keys == {key \in DOMAIN store : t > store[key].expires_at}
    IN  [store |-> [key \in DOMAIN store \ expired_keys |-> store[key]],
         count |-> Cardinality(expired_keys)]

FileCache_cleanup(store, self_ttl, t) ==
    LET expired == {key \in DOMAIN store : t - store[key].mtime > self_ttl}
    IN  [store |-> [key \in DOMAIN store \ expired |-> store[key]],
         count |-> Cardinality(expired)]

\* tier.cleanup() when the tier is one of those cleaned (on), storage healthy
TierCleanup(tier, on, c, t) ==
    IF ~on
    THEN [store |-> c[tier], count |-> 0]
    ELSE CASE tier = "memory" -> MemoryCache_cleanup(c.memory, t)
           [] tier = "file" -> FileCache_cleanup(c.file, file_ttl, t)
           [] tier = "db" -> DatabaseCache_cleanup(c.db, db_ttl, t)

\* cleanup(cache_type): the stores afterwards and the dict of counts returned
CacheManager_cleanup(c, cf, cache_type, t) ==
    LET to == Addressed(cache_type, cf)
        r == [tier \in Tiers |-> TierCleanup(tier, tier \in to, c, t)]
    IN  [cache |-> [tier \in Tiers |-> r[tier].store],
         result |-> [tier \in Tiers |-> r[tier].count]]

CleanKeys == {"k1", "k2"}

\* waits that bring an entry to the very end of a tier's lifetime, or past it
CleanDurations == {memory_ttl, file_ttl, db_ttl}

Cleanup(cache_type) ==
    LET r == CacheManager_cleanup(cache, conf, cache_type, now)
    IN  /\ cache' = r.cache
        /\ last' = [op |-> "cleanup", cache_type |-> cache_type, time |-> now,
                    result |-> r.result]
        /\ Seen(Healthy)
        /\ UNCHANGED <<now, ticks, conf, fvars, config, svars, avars, rvars,
                       shadow, deduped, tvars>>

InitClean ==
    /\ InitCache(Confs) /\ InitFetch /\ config = AllOn /\ InitAnnotate /\ InitRun

NextClean ==
    \/ WaitUpTo(CleanDurations, MaxTicks + 1)
    \/ \E key \in CleanKeys, ttl \in Ttls : SetSeen(key, "v1", ttl, None, Healthy)
    \/ \E cache_type \in AnyType : Cleanup(cache_type)

SpecClean == InitClean /\ [][NextClean]_vars

\* the keys a get on the tier would have reported absent, just before the last
\* call, although the tier held an entry for them
AbsentByAge(tier) ==
    {key \in DOMAIN before.cache[tier] :
        TierGet(before.cache, conf, key, tier, before.time) = None}

\* C40: cleanup removes from each enabled tier it addresses exactly the
\* entries a get on that tier would report absent because of their age,
\* leaves the unexpired ones as they were, and returns for each tier the
\* number of entries it removed there (0 for a tier it did not clean).
C40_CleanupAgreesWithGet ==
    last.op = "cleanup"
    => \A tier \in Tiers :
           IF tier \in Addressed(last.cache_type, conf)
           THEN /\ DOMAIN cache[tier] = DOMAIN before.cache[tier] \ AbsentByAge(tier)
                /\ \A key \in DOMAIN cache[tier] :
                       cache[tier][key] = before.cache[tier][key]
                /\ last.result[tier] = Cardinality(AbsentByAge(tier))
           ELSE /\ cache[tier] = before.cache[tier]
                /\ last.result[tier] = 0

\* a cleanup of every tier that removed an expired entry from the db tier and
\* left an unexpired one there
C40_Witness ==
    /\ last.op = "cleanup" /\ last.cache_type = None
    /\ conf = AllTiers
    /\ last.result["db"] = 1
    /\ DOMAIN cache["db"] # {}
    /\ last.result["memory"] = 2

====
